---- MODULE Spec2Model ----
(***************************************************************************)
(* StackMonitor: the config service, the Go agent and the ingestion        *)
(* service, as state machines.                                             *)
(*                                                                         *)
(*   services/config-service/main.go     loadConfig, GetConfig, main       *)
(*   agents/go-agent/main.go             parseLog, batchSender, sendBatch, *)
(*                                       configPoller, main                *)
(*   services/ingestion-service/main.go  isDuplicate, StreamLogs,          *)
(*                                       batchWriter, insertBatch          *)
(*                                                                         *)
(* Go strings that the code inspects (message, level, service, patterns)   *)
(* are sequences of one-character strings; opaque tokens (document bytes,  *)
(* versions, ids) are TLA+ strings.                                        *)
(***************************************************************************)
EXTENDS Integers, Sequences, FiniteSets, TLC

(***************************************************************************)
(* Bounds of the model.                                                    *)
(***************************************************************************)
\* how many times the operator rewrites or removes the config file
MaxEdits == 1
\* how many lines the tailer reads
MaxLines == 2
\* how many batches the streams of the ingestion service receive in all
MaxBatches == 3
\* the last instant of the clock, in seconds
MaxTime == 90
\* how late after its deadline a deferred deletion may run, in seconds
MaxTimerLag == 0
\* how long the health endpoint is watched, in seconds
MaxUptime == 150

\* how long the clock of the flush tickers runs, in seconds
MaxClock == 21
\* cb.maxFailures, an argument of NewCircuitBreaker
MaxFailures == 2
\* cb.resetTimeout, an argument of NewCircuitBreaker, in seconds
ResetTimeout == 2
\* how many times Execute is called on the breaker
MaxCalls == 6
\* how many bytes the watched file grows to
MaxFileLen == 4
\* how many entries the writer takes from a full inbox
MaxTaken == 2
\* how many batches the agent's stream takes ahead of the receiver
SendWindow == 1

(***************************************************************************)
(* Constants of the program.                                               *)
(***************************************************************************)
\* batchSender flushes when len(buffer) >= 100
AgentBatchSize == 100
\* logChan: make(chan *logpb.LogEntry, 1000)
AgentLogChanCap == 1000
\* time.AfterFunc(60*time.Second, ...) in isDuplicate
DedupWindow == 60
\* batchSize of the ingestion service
IngestBatchSize == 100
\* logChan of the ingestion service: make(chan *pb.LogEntry, 1000)
InboxCap == 1000

\* the period of batchSender's ticker, in seconds
BatchWindow == 10

\* batchTimeout, the period of batchWriter's ticker, in seconds
BatchTimeout == 5

\* no entry is buffered
NoTime == -1

(***************************************************************************)
(* Config documents.  The service treats a document as opaque bytes; the   *)
(* empty string is the zero-length document (Go's nil and empty []byte     *)
(* both have len 0).                                                       *)
(***************************************************************************)
Docs == {"", "all1", "info0", "rules", "override", "bad"}

\* hex of the first 8 bytes of the SHA-256 of the payload: one token per
\* document, distinct documents get distinct tokens ("e3b0c44298fc1c14" is
\* the value for zero bytes).
Sha256Hex8(payload) ==
    CASE payload = ""      -> "e3b0c44298fc1c14"
      [] payload = "all1"  -> "h-all1"
      [] payload = "info0" -> "h-info0"
      [] payload = "rules" -> "h-rules"
      [] payload = "override" -> "h-override"
      [] payload = "bad"   -> "h-bad"
      [] OTHER             -> "h-other"

\* the documents the operator puts in the config file when the service is
\* studied on its own
CfgDocs == {"", "all1", "info0"}

\* versions a probing caller may present: everything the service can hold,
\* and one it never held
RequestVersions == {"", "stale"} \cup {Sha256Hex8(d) : d \in CfgDocs}

\* clients that call GetConfig directly, each under its own agent_id
Probes == {"agent-1", "agent-2"}

VARIABLES
    cfgFile,      \* /config/config.yaml: [readable, doc]
    edits,        \* number of operator edits so far
    s_payload,    \* configServer.configPayload
    s_version,    \* configServer.configVersion
    s_mu,         \* configServer.mu: [writer, pending, readers]
    ld,           \* the loadConfig invocation: [pc, ok, payload, version]
    serving,      \* main has reached grpcServer.Serve
    loaded,       \* history: <<version, payload>> of the last successful read that was stored
    calls,        \* GetConfig invocations, per caller
    a_build,      \* which build of the agent runs: "go-agent" or "part_004"
    a_config,     \* Agent.config: the live policy
    a_version,    \* Agent.configVersion
    a_mu,         \* Agent.mu
    poll,         \* main's initial fetch, then configPoller: [pc, cur, err, rv, rp, parsed]
    tl,           \* a tailer inside parseLog / tailFile: [pc, line, cfg, rate, kept, sent]
    lines,        \* number of lines the tailer has read
    a_queue,      \* Agent.logChan
    a_buffer,     \* batchSender's buffer
    a_snd,        \* batchSender inside sendBatch: [pc, at]
    batchID,      \* Agent.batchID
    st_up,        \* the agent's stream is usable
    wire,         \* batches sent on the stream and not yet received
    losses,       \* history: how many sent batches an aborted stream lost
    handlers,     \* StreamLogs invocations, per stream
    dedupCache,   \* ingestionServer.dedupCache: the keys present
    timers,       \* pending time.AfterFunc deletions: [key, at]
    now,          \* the clock, in seconds
    inbox,        \* ingestionServer.logChan
    w_buffer,     \* batchWriter's buffer: the slice it is collecting
    w_ins,        \* batchWriter inside insertBatch: [pc, logs]
    store,        \* the rows of stackmonitor.logs, in insertion order
    metrics,      \* the ingestion service's counters and lastInsertTime
    admits,       \* history: the entries admitted past dedup, with their time
    timing,       \* the two flush tickers' next ticks, and history: when the oldest
                  \* entry of each buffer was appended: [a_tick, a_first, w_tick, w_first]
    health,       \* the last response of healthHandler: [status, code]
    cb,           \* a CircuitBreaker: [state, failures, lastFailTime, halfOpenCount]
    execs,        \* the goroutines that call CircuitBreaker.Execute: [pc, period]
    cbh,          \* history of the breaker's calls: [streak, probes, wins, open,
                  \* period, calls, last]
    a_failed,     \* history: the batch_id of every batch whose stream.Send
                  \* returned an error
    a_proc,       \* the agent's process: [up, lost]; lost is history, the entries
                  \* the batcher held when the process ended
    tf,           \* tailFile of one watched file: [pc, data, off, events, out, buf,
                  \* eof, todo]
    retry         \* a call of RetryWithBackoff: [pc, maxRetries, attempt, lastErr,
                  \* calls, ctxDone, result]

cfgVars == <<cfgFile, edits, s_payload, s_version, s_mu, ld, serving, loaded, calls>>

policyVars == <<a_build, a_config, a_version, a_mu, poll>>

agentVars == <<tl, lines, a_queue, a_buffer, a_snd, batchID, st_up, wire, losses>>

ingVars ==
    <<handlers, dedupCache, timers, now, inbox, w_buffer, w_ins, store, metrics, admits>>

resVars == <<health, cb, execs, cbh, retry>>

sideVars == <<resVars, a_failed, a_proc, tf>>

nonCfgVars == <<policyVars, agentVars, ingVars, timing, sideVars>>

vars == <<cfgVars, policyVars, agentVars, ingVars, timing, sideVars>>

(***************************************************************************)
(* sync.RWMutex.  A Lock that is waiting for readers to leave blocks new   *)
(* RLock calls.                                                            *)
(***************************************************************************)
MuFree == [writer |-> FALSE, pending |-> FALSE, readers |-> 0]

\* mutant: the read lock is not taken
CanRLock_NoLock(mu) == TRUE

CanRLock(mu) == ~mu.writer /\ ~mu.pending

CanLock(mu) == ~mu.writer /\ mu.readers = 0

RLocked(mu) == [mu EXCEPT !.readers = @ + 1]

RUnlocked(mu) == [mu EXCEPT !.readers = @ - 1]

(***************************************************************************)
(* The config file and its operator.                                       *)
(***************************************************************************)
EditFile(d) ==
    /\ edits < MaxEdits
    /\ cfgFile' = [readable |-> TRUE, doc |-> d]
    /\ edits' = edits + 1
    /\ UNCHANGED <<s_payload, s_version, s_mu, ld, serving, loaded, calls, nonCfgVars>>

RemoveFile ==
    /\ edits < MaxEdits
    /\ cfgFile.readable
    /\ cfgFile' = [cfgFile EXCEPT !.readable = FALSE]
    /\ edits' = edits + 1
    /\ UNCHANGED <<s_payload, s_version, s_mu, ld, serving, loaded, calls, nonCfgVars>>

(***************************************************************************)
(* loadConfig (config-service/main.go:30-52), one step per statement that  *)
(* another goroutine can observe.                                          *)
(***************************************************************************)
\* mutant: the early return on a read error is missing
AfterReadFile_NoReturn(ok) == "lock"

\* where loadConfig continues after os.ReadFile: it returns on an error
AfterReadFile(ok) == IF ok THEN "lock" ELSE "sleep"

LoadRead ==
    /\ ld.pc = "read"
    /\ LET ok == cfgFile.readable
           payload == IF ok THEN cfgFile.doc ELSE ""
       IN  ld' = [pc |-> AfterReadFile(ok), ok |-> ok, payload |-> payload,
                  version |-> Sha256Hex8(payload)]
    /\ serving' = (serving \/ AfterReadFile(cfgFile.readable) = "sleep")
    /\ UNCHANGED <<cfgFile, edits, s_payload, s_version, s_mu, loaded, calls, nonCfgVars>>

LoadLock ==
    /\ ld.pc = "lock"
    /\ ~s_mu.pending
    /\ s_mu' = [s_mu EXCEPT !.pending = TRUE]
    /\ ld' = [ld EXCEPT !.pc = "acquire"]
    /\ UNCHANGED <<cfgFile, edits, s_payload, s_version, serving, loaded, calls, nonCfgVars>>

LoadAcquire ==
    /\ ld.pc = "acquire"
    /\ CanLock(s_mu)
    /\ s_mu' = [s_mu EXCEPT !.pending = FALSE, !.writer = TRUE]
    /\ ld' = [ld EXCEPT !.pc = "setPayload"]
    /\ UNCHANGED <<cfgFile, edits, s_payload, s_version, serving, loaded, calls, nonCfgVars>>

LoadSetPayload ==
    /\ ld.pc = "setPayload"
    /\ s_payload' = ld.payload
    /\ ld' = [ld EXCEPT !.pc = "setVersion"]
    /\ UNCHANGED <<cfgFile, edits, s_version, s_mu, serving, loaded, calls, nonCfgVars>>

LoadSetVersion ==
    /\ ld.pc = "setVersion"
    /\ s_version' = ld.version
    /\ loaded' = IF ld.ok THEN <<ld.version, ld.payload>> ELSE loaded
    /\ ld' = [ld EXCEPT !.pc = "unlock"]
    /\ UNCHANGED <<cfgFile, edits, s_payload, s_mu, serving, calls, nonCfgVars>>

LoadUnlock ==
    /\ ld.pc = "unlock"
    /\ s_mu' = [s_mu EXCEPT !.writer = FALSE]
    /\ ld' = [ld EXCEPT !.pc = "sleep"]
    /\ serving' = TRUE
    /\ UNCHANGED <<cfgFile, edits, s_payload, s_version, loaded, calls, nonCfgVars>>

\* main's reload goroutine: time.Sleep(10 s), then loadConfig again
LoadWake ==
    /\ ld.pc = "sleep"
    /\ ld' = [ld EXCEPT !.pc = "read"]
    /\ UNCHANGED <<cfgFile, edits, s_payload, s_version, s_mu, serving, loaded, calls, nonCfgVars>>

LoadConfigStep ==
    \/ LoadRead
    \/ LoadLock
    \/ LoadAcquire
    \/ LoadSetPayload
    \/ LoadSetVersion
    \/ LoadUnlock
    \/ LoadWake

(***************************************************************************)
(* GetConfig (config-service/main.go:54-68).  The handler holds the read   *)
(* lock from its first statement to its return (defer RUnlock).            *)
(***************************************************************************)
IdleCall == [pc |-> "idle", cur |-> "", eq |-> FALSE,
             rv |-> "", rp |-> "", seenV |-> "", seenP |-> ""]

\* the request (agent_id, current_version) arrives; c is the caller and its
\* agent_id, which the handler never reads
GetConfigCall(c, cur) ==
    /\ serving
    /\ calls[c].pc \in {"idle", "done"}
    /\ calls' = [calls EXCEPT ![c] = [IdleCall EXCEPT !.pc = "rlock", !.cur = cur]]
    /\ UNCHANGED <<cfgFile, edits, s_payload, s_version, s_mu, ld, serving, loaded>>

GetConfigRLock(c) ==
    /\ calls[c].pc = "rlock"
    /\ CanRLock(s_mu)
    /\ s_mu' = RLocked(s_mu)
    /\ calls' = [calls EXCEPT ![c].pc = "compare",
                              ![c].seenV = s_version, ![c].seenP = s_payload]
    /\ UNCHANGED <<cfgFile, edits, s_payload, s_version, ld, serving, loaded, nonCfgVars>>

\* mutant: the version comparison never succeeds
SameVersion_Never(cur, version) == FALSE

\* req.CurrentConfigVersion == s.configVersion
SameVersion(cur, version) == cur = version

GetConfigCompare(c) ==
    /\ calls[c].pc = "compare"
    /\ calls' = [calls EXCEPT ![c].pc = "version",
                              ![c].eq = SameVersion(calls[c].cur, s_version)]
    /\ UNCHANGED <<cfgFile, edits, s_payload, s_version, s_mu, ld, serving, loaded, nonCfgVars>>

\* ConfigVersion: s.configVersion, in either return statement
GetConfigReadVersion(c) ==
    /\ calls[c].pc = "version"
    /\ calls' = [calls EXCEPT ![c].pc = IF calls[c].eq THEN "runlock" ELSE "payload",
                              ![c].rv = s_version]
    /\ UNCHANGED <<cfgFile, edits, s_payload, s_version, s_mu, ld, serving, loaded, nonCfgVars>>

\* ConfigPayload: s.configPayload, in the second return statement only
GetConfigReadPayload(c) ==
    /\ calls[c].pc = "payload"
    /\ calls' = [calls EXCEPT ![c].pc = "runlock", ![c].rp = s_payload]
    /\ UNCHANGED <<cfgFile, edits, s_payload, s_version, s_mu, ld, serving, loaded, nonCfgVars>>

GetConfigReturn(c) ==
    /\ calls[c].pc = "runlock"
    /\ s_mu' = RUnlocked(s_mu)
    /\ calls' = [calls EXCEPT ![c].pc = "done"]
    /\ UNCHANGED <<cfgFile, edits, s_payload, s_version, ld, serving, loaded, nonCfgVars>>

GetConfigStep(c) ==
    \/ GetConfigRLock(c)
    \/ GetConfigCompare(c)
    \/ GetConfigReadVersion(c)
    \/ GetConfigReadPayload(c)
    \/ GetConfigReturn(c)

(***************************************************************************)
(* Go strings as sequences of characters.                                  *)
(***************************************************************************)
ERROR == <<"E", "R", "R", "O", "R">>

WARN == <<"W", "A", "R", "N">>

INFO == <<"I", "N", "F", "O">>

DEBUG == <<"D", "E", "B", "U", "G">>

\* strings.Contains(s, substr)
StringsContains(s, substr) ==
    \E i \in 0..(Len(s) - Len(substr)) : SubSeq(s, i + 1, i + Len(substr)) = substr

(***************************************************************************)
(* The policy: AgentConfig.Sampling.  A rate is held in hundredths (29 is  *)
(* the float64 nearest 0.29).                                              *)
(***************************************************************************)
\* main's &AgentConfig{}: no base rates, no content rules
DefaultConfig == [base_rates |-> << >>, content_rules |-> << >>]

\* yaml.Unmarshal(payload, &cfg): whether it succeeds, and the policy it yields
ParseYaml(payload) ==
    CASE payload = "all1" ->
            [ok |-> TRUE,
             cfg |-> [base_rates |-> (ERROR :> 100 @@ WARN :> 100 @@ INFO :> 100),
                      content_rules |-> << >>]]
      [] payload = "info0" ->
            [ok |-> TRUE,
             cfg |-> [base_rates |-> (ERROR :> 100 @@ WARN :> 100 @@ INFO :> 0),
                      content_rules |-> << >>]]
      [] payload = "rules" ->
            [ok |-> TRUE,
             cfg |-> [base_rates |-> (ERROR :> 100 @@ INFO :> 29),
                      content_rules |-> << [pattern |-> <<"p", "a">>, rate |-> 0],
                                           [pattern |-> <<"p", "a", "y">>, rate |-> 100] >>]]
      [] payload = "override" ->
            [ok |-> TRUE,
             cfg |-> [base_rates |-> (ERROR :> 0 @@ INFO :> 57),
                      content_rules |-> << [pattern |-> <<"p", "a", "y">>, rate |-> 100],
                                           [pattern |-> <<"p", "a">>, rate |-> 0] >>]]
      [] OTHER -> [ok |-> FALSE, cfg |-> DefaultConfig]

\* the rate for a level that base_rates does not list
DefaultRate(build) == IF build = "part_004" THEN 100 ELSE 10

\* the indices of the content rules whose pattern is a substring of the message
MatchingRules(cfg, message) ==
    {i \in 1..Len(cfg.content_rules) : StringsContains(message, cfg.content_rules[i].pattern)}

Min(S) == CHOOSE x \in S : \A y \in S : x <= y

\* mutant: the level is not found in base_rates
EffectiveRate_NoBase(build, cfg, level, message) ==
    LET hits == MatchingRules(cfg, message)
    IN  IF hits = {} THEN DefaultRate(build) ELSE cfg.content_rules[Min(hits)].rate

\* mutant: the walk over the content rules does not stop at the first match
EffectiveRate_LastRule(build, cfg, level, message) ==
    LET base == IF level \in DOMAIN cfg.base_rates
                THEN cfg.base_rates[level] ELSE DefaultRate(build)
        hits == MatchingRules(cfg, message)
    IN  IF hits = {} THEN base
        ELSE cfg.content_rules[CHOOSE i \in hits : \A j \in hits : j <= i].rate

\* parseLog's rate: the base rate of the level, overridden by the first
\* matching content rule
EffectiveRate(build, cfg, level, message) ==
    LET base == IF level \in DOMAIN cfg.base_rates
                THEN cfg.base_rates[level] ELSE DefaultRate(build)
        hits == MatchingRules(cfg, message)
    IN  IF hits = {} THEN base ELSE cfg.content_rules[Min(hits)].rate

\* int64(rate*100) in float64 arithmetic: 0.29*100, 0.57*100 and 0.58*100
\* fall just below the integer
TruncRate100(rate) == IF rate \in {29, 57, 58} THEN rate - 1 ELSE rate

\* the values rand.Int(rand.Reader, big.NewInt(100)) returns
Draws == 0..99

\* whether parseLog keeps the entry, given the draw n
SamplerKeeps(rate, n) == IF rate < 100 THEN ~(n > TruncRate100(rate)) ELSE TRUE

(***************************************************************************)
(* The agent: main's initial fetch and configPoller                        *)
(* (agents/go-agent/main.go:264-295, 336-352).                             *)
(***************************************************************************)
AgentId == "agent-1"

Builds == {"go-agent", "part_004"}

Started == poll.pc \notin {"m_call", "m_resp"}

\* mutant: the result of yaml.Unmarshal is not checked
AfterResponse_IgnoreParse(cur, rv, rp) ==
    IF rv # cur /\ rp # "" THEN "p_lock" ELSE "p_sleep"

\* mutant: the version test is inverted
AfterResponse_Inverted(cur, rv, rp) ==
    IF rv = cur /\ rp # "" /\ ParseYaml(rp).ok THEN "p_lock" ELSE "p_sleep"

\* what the poller does with a response: parse and swap, or go back to sleep
\*   resp.ConfigVersion != currentVersion && len(resp.ConfigPayload) > 0
\*   yaml.Unmarshal(...) == nil
AfterResponse(cur, rv, rp) ==
    IF rv # cur /\ rp # "" /\ ParseYaml(rp).ok THEN "p_lock" ELSE "p_sleep"

\* main: GetConfig(agentID, "") reaches the service
MainCall ==
    /\ poll.pc = "m_call"
    /\ GetConfigCall(AgentId, "")
    /\ poll' = [poll EXCEPT !.pc = "m_resp", !.cur = "", !.err = FALSE]
    /\ UNCHANGED <<ingVars, timing, sideVars, a_build, a_config, a_version, a_mu, agentVars>>

\* main: the call fails (the service is not reachable)
MainCallError ==
    /\ poll.pc = "m_call"
    /\ poll' = [poll EXCEPT !.pc = "p_rlock", !.cur = "", !.err = TRUE]
    /\ UNCHANGED <<ingVars, cfgVars, timing, sideVars, a_build, a_config, a_version, a_mu,
                   agentVars>>

\* main: the response arrives (or the 5 s deadline passes); a non-empty
\* payload that parses becomes the initial policy; the goroutines start
MainResponse ==
    /\ poll.pc = "m_resp"
    /\ calls[AgentId].pc = "done"
    /\ \E err \in BOOLEAN :
          LET rv == calls[AgentId].rv
              rp == calls[AgentId].rp
              use == ~err /\ rp # "" /\ ParseYaml(rp).ok
          IN  /\ poll' = [poll EXCEPT !.pc = "p_rlock", !.err = err, !.rv = rv, !.rp = rp]
              /\ a_config' = IF use THEN ParseYaml(rp).cfg ELSE a_config
              /\ a_version' = IF use THEN rv ELSE a_version
    /\ UNCHANGED <<ingVars, cfgVars, timing, sideVars, a_build, a_mu, agentVars>>

PollRLock ==
    /\ poll.pc = "p_rlock"
    /\ CanRLock(a_mu)
    /\ a_mu' = RLocked(a_mu)
    /\ poll' = [poll EXCEPT !.pc = "p_read"]
    /\ UNCHANGED <<ingVars, cfgVars, timing, sideVars, a_build, a_config, a_version, agentVars>>

PollReadVersion ==
    /\ poll.pc = "p_read"
    /\ a_mu' = RUnlocked(a_mu)
    /\ poll' = [poll EXCEPT !.pc = "p_call", !.cur = a_version]
    /\ UNCHANGED <<ingVars, cfgVars, timing, sideVars, a_build, a_config, a_version, agentVars>>

PollCall ==
    /\ poll.pc = "p_call"
    /\ GetConfigCall(AgentId, poll.cur)
    /\ poll' = [poll EXCEPT !.pc = "p_resp", !.err = FALSE]
    /\ UNCHANGED <<ingVars, timing, sideVars, a_build, a_config, a_version, a_mu, agentVars>>

\* the call fails (the service is not reachable)
PollCallError ==
    /\ poll.pc = "p_call"
    /\ poll' = [poll EXCEPT !.pc = "p_sleep", !.err = TRUE]
    /\ UNCHANGED <<ingVars, cfgVars, timing, sideVars, a_build, a_config, a_version, a_mu,
                   agentVars>>

PollResponse ==
    /\ poll.pc = "p_resp"
    /\ calls[AgentId].pc = "done"
    /\ LET rv == calls[AgentId].rv
           rp == calls[AgentId].rp
       IN  poll' = [poll EXCEPT !.pc = AfterResponse(poll.cur, rv, rp),
                                !.err = FALSE, !.rv = rv, !.rp = rp]
    /\ UNCHANGED <<ingVars, cfgVars, timing, sideVars, a_build, a_config, a_version, a_mu,
                   agentVars>>

\* the call ends with an error (deadline exceeded, transport failure)
PollResponseError ==
    /\ poll.pc = "p_resp"
    /\ calls[AgentId].pc = "done"
    /\ poll' = [poll EXCEPT !.pc = "p_sleep", !.err = TRUE]
    /\ UNCHANGED <<ingVars, cfgVars, timing, sideVars, a_build, a_config, a_version, a_mu,
                   agentVars>>

PollLock ==
    /\ poll.pc = "p_lock"
    /\ ~a_mu.pending
    /\ a_mu' = [a_mu EXCEPT !.pending = TRUE]
    /\ poll' = [poll EXCEPT !.pc = "p_acquire"]
    /\ UNCHANGED <<ingVars, cfgVars, timing, sideVars, a_build, a_config, a_version, agentVars>>

PollAcquire ==
    /\ poll.pc = "p_acquire"
    /\ CanLock(a_mu)
    /\ a_mu' = [a_mu EXCEPT !.pending = FALSE, !.writer = TRUE]
    /\ poll' = [poll EXCEPT !.pc = "p_setConfig"]
    /\ UNCHANGED <<ingVars, cfgVars, timing, sideVars, a_build, a_config, a_version, agentVars>>

PollSetConfig ==
    /\ poll.pc = "p_setConfig"
    /\ a_config' = ParseYaml(poll.rp).cfg
    /\ poll' = [poll EXCEPT !.pc = "p_setVersion"]
    /\ UNCHANGED <<ingVars, cfgVars, timing, sideVars, a_build, a_version, a_mu, agentVars>>

PollSetVersion ==
    /\ poll.pc = "p_setVersion"
    /\ a_version' = poll.rv
    /\ poll' = [poll EXCEPT !.pc = "p_unlock"]
    /\ UNCHANGED <<ingVars, cfgVars, timing, sideVars, a_build, a_config, a_mu, agentVars>>

PollUnlock ==
    /\ poll.pc = "p_unlock"
    /\ a_mu' = [a_mu EXCEPT !.writer = FALSE]
    /\ poll' = [poll EXCEPT !.pc = "p_sleep"]
    /\ UNCHANGED <<ingVars, cfgVars, timing, sideVars, a_build, a_config, a_version, agentVars>>

\* <-ticker.C (60 s)
PollTick ==
    /\ poll.pc = "p_sleep"
    /\ poll' = [poll EXCEPT !.pc = "p_rlock"]
    /\ UNCHANGED <<ingVars, cfgVars, timing, sideVars, a_build, a_config, a_version, a_mu,
                   agentVars>>

ConfigPollerStep ==
    \/ PollRLock
    \/ PollReadVersion
    \/ PollCall
    \/ PollResponse
    \/ PollLock
    \/ PollAcquire
    \/ PollSetConfig
    \/ PollSetVersion
    \/ PollUnlock
    \/ PollTick

(***************************************************************************)
(* The agent: a tailer running parseLog on one line and putting the kept   *)
(* entry on the send queue (agents/go-agent/main.go:115-147, 183-189).     *)
(***************************************************************************)
\* what the regexes extract from the lines of the watched file:
\* (level, service, message)
ParsedLines ==
    {[level |-> l, service |-> <<"d", "b">>, message |-> m] :
        l \in {ERROR, INFO, DEBUG}, m \in {<<"o", "k">>, <<"p", "a", "y">>}}

NoLine == [level |-> << >>, service |-> << >>, message |-> << >>]

TailIdle == [pc |-> "idle", line |-> NoLine, cfg |-> DefaultConfig, rate |-> 0,
             kept |-> FALSE, sent |-> FALSE]

\* the LogEntry parseLog returns; seq stands for timestamp_ns and trace_id,
\* which tell the entries of one agent apart
MakeEntry(line, seq) ==
    [agent_id |-> AgentId, seq |-> seq, level |-> line.level,
     service |-> line.service, message |-> line.message]

\* a line was read and its timestamp, level, service and message extracted
TailLine(from) ==
    /\ Started
    /\ tl.pc = "idle"
    /\ lines < MaxLines
    /\ \E line \in from : tl' = [TailIdle EXCEPT !.pc = "rlock", !.line = line]
    /\ lines' = lines + 1
    /\ UNCHANGED <<ingVars, cfgVars, timing, sideVars, policyVars, a_queue, a_buffer, a_snd,
                   batchID, st_up, wire, losses>>

\* A raw line as the three regular expressions see it: the format that
\* matches first (appLogRegex, tomcatLogRegex, nginxLogRegex, or none),
\* whether time.Parse accepts the timestamp group, the level group (app:
\* matches[2], tomcat: levelStr), the status group of an nginx line and the
\* message group.
RawLine(format, tsOk, token, status, message) ==
    [format |-> format, tsOk |-> tsOk, token |-> token, status |-> status,
     message |-> message]

\* the level, service and message parseLog extracts from a raw line before
\* it looks up the rate; NoLine where it returns nil (no format matches, so
\* t.IsZero(), or the timestamp does not parse)
Extract(raw) ==
    CASE ~raw.tsOk -> NoLine
      [] raw.format = "app" ->
           [level |-> raw.token, service |-> <<"d", "b">>, message |-> raw.message]
      [] raw.format = "tomcat" ->
           [level |-> CASE raw.token = <<"S", "E", "V", "E", "R", "E">> -> ERROR
                        [] raw.token = <<"W", "A", "R", "N", "I", "N", "G">> -> WARN
                        [] OTHER -> INFO,
            service |-> <<"t", "o", "m", "c", "a", "t">>, message |-> raw.message]
      [] raw.format = "nginx" ->
           [level |-> CASE raw.status >= 500 -> ERROR
                        [] raw.status >= 400 -> WARN
                        [] OTHER -> INFO,
            service |-> <<"n", "g", "i", "n", "x">>, message |-> raw.message]
      [] OTHER -> NoLine

\* tailFile hands a raw line to parseLog: nothing comes of a line parseLog
\* cannot read, any other goes on to the rate lookup
TailRaw(raw) ==
    /\ Started
    /\ tl.pc = "idle"
    /\ lines < MaxLines
    /\ tl' = IF Extract(raw) = NoLine THEN TailIdle
             ELSE [TailIdle EXCEPT !.pc = "rlock", !.line = Extract(raw)]
    /\ lines' = lines + 1
    /\ UNCHANGED <<ingVars, cfgVars, timing, sideVars, policyVars, a_queue, a_buffer, a_snd,
                   batchID, st_up, wire, losses>>

\* a.mu.RLock()
TailRLock ==
    /\ tl.pc = "rlock"
    /\ CanRLock(a_mu)
    /\ a_mu' = RLocked(a_mu)
    /\ tl' = [tl EXCEPT !.pc = "rate"]
    /\ UNCHANGED <<ingVars, cfgVars, timing, sideVars, a_build, a_config, a_version, poll, lines,
                   a_queue, a_buffer, a_snd, batchID, st_up, wire, losses>>

\* mutant: the read lock is kept past the lookup
TailRUnlock_Kept(mu) == mu

\* a.mu.RUnlock() right after the lookup, before the draw
TailRUnlock(mu) == RUnlocked(mu)

\* the rate is read from the live policy; a.mu.RUnlock()
TailRate ==
    /\ tl.pc = "rate"
    /\ a_mu' = TailRUnlock(a_mu)
    /\ tl' = [tl EXCEPT !.pc = "draw", !.cfg = a_config,
                        !.rate = EffectiveRate(a_build, a_config, tl.line.level, tl.line.message)]
    /\ UNCHANGED <<ingVars, cfgVars, timing, sideVars, a_build, a_config, a_version, poll, lines,
                   a_queue, a_buffer, a_snd, batchID, st_up, wire, losses>>

\* if rate < 1.0 { n, _ := rand.Int(rand.Reader, big.NewInt(100)) ... }:
\* the draws parseLog may get for the rate (none is made at 1.0 or above)
DrawsFor(rate) == IF rate < 100 THEN Draws ELSE {0}

\* the random draw, when the rate is below 1.0; a dropped entry is gone
TailDraw ==
    /\ tl.pc = "draw"
    /\ \E n \in DrawsFor(tl.rate) :
          LET keep == SamplerKeeps(tl.rate, n)
          IN  tl' = [tl EXCEPT !.pc = IF keep THEN "send" ELSE "idle", !.kept = keep]
    /\ UNCHANGED <<ingVars, cfgVars, timing, sideVars, policyVars, lines, a_queue, a_buffer, a_snd,
                   batchID, st_up, wire, losses>>

\* a.logChan <- entry: blocks while the queue is full
TailSend ==
    /\ tl.pc = "send"
    /\ Len(a_queue) < AgentLogChanCap
    /\ a_queue' = Append(a_queue, MakeEntry(tl.line, lines))
    /\ tl' = [tl EXCEPT !.pc = "idle", !.sent = TRUE]
    /\ UNCHANGED <<ingVars, cfgVars, timing, sideVars, policyVars, lines, a_buffer, a_snd, batchID,
                   st_up, wire, losses>>

TailerStep ==
    \/ TailRLock
    \/ TailRate
    \/ TailDraw
    \/ TailSend

(***************************************************************************)
(* The agent: batchSender and sendBatch                                    *)
(* (agents/go-agent/main.go:199-262); the stream is gRPC's: Send queues    *)
(* the message in order and waits while the receiver is SendWindow batches *)
(* behind, an error from Send aborts the stream, and what was queued and   *)
(* not yet delivered when the stream aborts is lost.                       *)
(***************************************************************************)
\* the compression tag the build puts on its batches
BuildCompression(build) == IF build = "part_004" THEN "ZSTD" ELSE "NONE"

\* mutant: the counter is advanced twice
NextBatchID_Twice(id) == id + 2

\* a.batchID++
NextBatchID(id) == id + 1

\* the batch record sendBatch builds from the buffer
\* payload is the state of CompressedPayload: "none" when it is empty, "ok"
\* when it is what the encoder produced
MakeBatch(id, logs) ==
    [agent_id |-> AgentId, batch_id |-> id, logs |-> logs,
     compression |-> BuildCompression(a_build),
     payload |-> IF BuildCompression(a_build) = "ZSTD" THEN "ok" ELSE "none"]

\* batchSender is in its select
SendIdle == [pc |-> "select", at |-> NoTime]

\* sendBatch(logs) up to the call of a.stream.Send: nothing for an empty
\* slice; otherwise the next batch_id is taken and the batch is handed to
\* Send; at: history, when that happened
SendBatch(logs) ==
    IF Len(logs) = 0
    THEN UNCHANGED <<batchID, a_snd>>
    ELSE /\ batchID' = NextBatchID(batchID)
         /\ a_snd' = [pc |-> "send", at |-> now]

\* a.stream.Send(batch) returns and batchSender makes its next buffer.  Send
\* returns nil once flow control lets the stream take the message, which
\* it does while fewer than SendWindow batches wait for the receiver;
\* until then it waits.  It returns an error on a stream that is not
\* usable, and may abort the stream.
StreamSend ==
    /\ a_snd.pc = "send"
    /\ \E ok \in {b \in BOOLEAN : b => st_up /\ Len(wire) < SendWindow} :
          /\ st_up' = ok
          /\ wire' = IF ok THEN Append(wire, MakeBatch(batchID, a_buffer)) ELSE wire
          /\ a_failed' = IF ok THEN a_failed ELSE Append(a_failed, batchID)
    /\ a_buffer' = << >>
    /\ a_snd' = SendIdle
    /\ timing' = [timing EXCEPT !.a_first = NoTime]
    /\ UNCHANGED <<ingVars, cfgVars, policyVars, resVars, a_proc, tf, tl, lines, a_queue,
                   batchID, losses>>

\* mutant: the entry is put in front of the buffer
AppendEntry_Front(buffer, entry) == <<entry>> \o buffer

\* buffer = append(buffer, entry)
AppendEntry(buffer, entry) == Append(buffer, entry)

\* mutant: the buffer is flushed only once it holds more than a full batch
BufferFull_After(buffer) == Len(buffer) > AgentBatchSize

\* if len(buffer) >= 100
BufferFull(buffer) == Len(buffer) >= AgentBatchSize

\* when the oldest entry of a buffer was appended: now for the entry that
\* starts the buffer, NoTime once the buffer is flushed
FirstAppended(first, buffer) ==
    CASE Len(buffer) = 0 -> NoTime
      [] Len(buffer) = 1 -> now
      [] OTHER -> first

\* case entry := <-a.logChan
BatchRecv ==
    /\ Started
    /\ a_snd.pc = "select"
    /\ Len(a_queue) > 0
    /\ a_buffer' = AppendEntry(a_buffer, Head(a_queue))
    /\ IF BufferFull(a_buffer') THEN SendBatch(a_buffer') ELSE UNCHANGED <<batchID, a_snd>>
    /\ a_queue' = Tail(a_queue)
    /\ timing' = [timing EXCEPT !.a_first = FirstAppended(@, a_buffer')]
    /\ UNCHANGED <<ingVars, cfgVars, policyVars, sideVars, tl, lines, st_up, wire, losses>>

\* mutant: the ticker flushes only a buffer of two entries or more
TickFlushes_Two(buffer) == Len(buffer) > 1

\* if len(buffer) > 0
TickFlushes(buffer) == Len(buffer) > 0

\* case <-ticker.C, with the ticker's next tick at nextTick
BatchOnTick(nextTick) ==
    /\ Started
    /\ a_snd.pc = "select"
    /\ IF TickFlushes(a_buffer) THEN SendBatch(a_buffer) ELSE UNCHANGED <<batchID, a_snd>>
    /\ timing' = [timing EXCEPT !.a_tick = nextTick]
    /\ UNCHANGED <<ingVars, cfgVars, policyVars, sideVars, tl, lines, a_queue, a_buffer, st_up,
                   wire, losses>>

\* case <-ticker.C, at whatever moment the tick comes
BatchTick == BatchOnTick(timing.a_tick)

\* The tick that follows the one of the instant tick, taken now, on a
\* ticker of the given period: the ticker's channel holds one tick, and the
\* ticks that come while it is full are dropped.
NextTick(tick, period) == tick + period * (((now - tick) \div period) + 1)

\* case <-ticker.C, when a tick of the 10 s ticker waits in its channel
BatchTickDue ==
    /\ now >= timing.a_tick
    /\ BatchOnTick(NextTick(timing.a_tick, BatchWindow))

\* the connection fails: the stream aborts and what is still in flight is lost
StreamAbort ==
    /\ st_up
    /\ st_up' = FALSE
    /\ wire' = << >>
    /\ losses' = losses + Len(wire)
    /\ UNCHANGED <<ingVars, cfgVars, timing, sideVars, policyVars, tl, lines, a_queue, a_buffer,
                   a_snd, batchID>>

BatchSenderStep ==
    \/ BatchRecv
    \/ BatchTick
    \/ StreamSend

(***************************************************************************)
(* The ingestion service: isDuplicate and the dedup cache                  *)
(* (services/ingestion-service/main.go:58-78).                             *)
(***************************************************************************)
Hyphen == <<"-">>

Unknown == <<"u", "n", "k", "n", "o", "w", "n">>

\* fmt.Sprintf("%s-%s-%s", entry.Message, entry.Level, service), where an
\* absent service counts as "unknown"
\* how far one step of the clock goes, in seconds: half a dedup window
TickStep == DedupWindow \div 2

DedupKey(entry) ==
    LET service == IF entry.service = << >> THEN Unknown ELSE entry.service
    IN  entry.message \o Hyphen \o entry.level \o Hyphen \o service

\* mutant: the deletion is scheduled at once
ExpiryAt_Immediate(t) == t

\* when the deletion that time.AfterFunc schedules at instant t is due
ExpiryAt(t) == t + DedupWindow

(***************************************************************************)
(* The ingestion service: StreamLogs, one invocation per stream            *)
(* (services/ingestion-service/main.go:81-159).                            *)
(***************************************************************************)
\* the stream of the agent of this model, and the stream of another client
AgentStream == "agent-1"

OtherStream == "client-2"

Streams == {AgentStream, OtherStream}

NoBatch == [agent_id |-> "", batch_id |-> 0, logs |-> << >>, compression |-> "NONE",
            payload |-> "none"]

\* pc: "recv" in stream.Recv, "dedup" before LoadOrStore for logs[i],
\* "timer" before time.AfterFunc, "submit" at s.logChan <- entry, "ack"
\* before the SUCCESS ack, "closed" after StreamLogs returned; seen: the
\* batch_id of every batch stream.Recv returned; acks: every Ack handed to
\* stream.Send
HandlerIdle == [pc |-> "recv", batch |-> NoBatch, i |-> 0, processed |-> 0,
                duplicate |-> 0, seen |-> << >>, acks |-> << >>]

MetricsZero == [batchesReceived |-> 0, logsReceived |-> 0, logsProcessed |-> 0,
                logsDuplicate |-> 0, logsInserted |-> 0, insertsFailed |-> 0,
                bytesReceived |-> 0, bytesDecompressed |-> 0, lastInsertTime |-> 0]

\* mutant: the ack carries no batch_id
AckBatchId_Unset(batch) == 0

\* BatchId: batch.BatchId
AckBatchId(batch) == batch.batch_id

\* mutant: the ack reports every entry of the batch as processed
Ack_AllProcessed(batch, status, processed) ==
    [batch_id |-> AckBatchId(batch), status |-> status, processed |-> Len(batch.logs),
     total |-> Len(batch.logs)]

\* the Ack handed to stream.Send; processed and total are the P and N of the
\* SUCCESS message "Processed P/N logs"
Ack(batch, status, processed) ==
    [batch_id |-> AckBatchId(batch), status |-> status, processed |-> processed,
     total |-> Len(batch.logs)]

\* mutant: no payload fails to decode
DecompressFails_Never(batch) == FALSE

\* the batch is tagged ZSTD, its payload is not empty and DecodeAll returns
\* an error
DecompressFails(batch) == batch.compression = "ZSTD" /\ batch.payload = "corrupt"

\* the handler after the entry logs[i] is dealt with: the next entry, or the ack
NextEntry(hd) ==
    IF hd.i < Len(hd.batch.logs) THEN [hd EXCEPT !.pc = "dedup", !.i = @ + 1]
    ELSE [hd EXCEPT !.pc = "ack"]

\* mutant: the entries are counted one per batch
CountReceived_PerBatch(m, batch) ==
    [m EXCEPT !.batchesReceived = @ + 1, !.logsReceived = @ + 1]

\* s.batchesReceived.Add(1); s.logsReceived.Add(uint64(len(batch.Logs)))
CountReceived(m, batch) ==
    [m EXCEPT !.batchesReceived = @ + 1, !.logsReceived = @ + Len(batch.logs)]

\* len(proto.Marshal(entry)): every entry of the model has the same size,
\* in units of the model
MarshalBytes == 4

\* batch.Compression == ZSTD && len(batch.CompressedPayload) > 0
Compressed(batch) == batch.compression = "ZSTD" /\ batch.payload # "none"

\* len(decompressed): the agent compresses the concatenation of its
\* marshalled entries (sendBatch of the ZSTD build)
DecodedBytes(batch) == Len(batch.logs) * MarshalBytes

\* len(batch.CompressedPayload): the encoder is taken to halve its input,
\* and a payload that does not decode to be as long as one that does
PayloadBytes(batch) == DecodedBytes(batch) \div 2

\* s.bytesReceived and s.bytesDecompressed: a compressed batch adds its
\* payload to bytesReceived before DecodeAll and what DecodeAll returned to
\* bytesDecompressed; any other batch adds the marshalled size of each of
\* its entries to bytesReceived alone
CountBytes(m, batch) ==
    IF Compressed(batch)
    THEN [m EXCEPT !.bytesReceived = @ + PayloadBytes(batch),
                   !.bytesDecompressed =
                       @ + IF DecompressFails(batch) THEN 0 ELSE DecodedBytes(batch)]
    ELSE [m EXCEPT !.bytesReceived = @ + Len(batch.logs) * MarshalBytes]

\* stream.Recv returned a batch: the counters, then the decompression of a
\* ZSTD payload (a failure is answered with a RETRY ack and the loop
\* continues), then the loop over the entries starts
StreamRecvFrom(h, batch) ==
    /\ handlers[h].pc = "recv"
    /\ metrics' = CountBytes(CountReceived(metrics, batch), batch)
    /\ LET hd == [handlers[h] EXCEPT !.seen = Append(@, batch.batch_id)]
       IN  IF DecompressFails(batch)
           THEN handlers' = [handlers EXCEPT ![h] =
                                [hd EXCEPT !.acks = Append(@, Ack(batch, "RETRY", 0))]]
           ELSE handlers' = [handlers EXCEPT ![h] =
                                NextEntry([hd EXCEPT !.batch = batch, !.i = 0,
                                                     !.processed = 0, !.duplicate = 0])]
    /\ UNCHANGED <<dedupCache, timers, now, inbox, w_buffer, w_ins, store, admits>>

\* isDuplicate: s.dedupCache.LoadOrStore(hash, true); a key that is present
\* makes the entry a duplicate, which is counted and dropped
IsDuplicateLoadOrStore(h) ==
    /\ handlers[h].pc = "dedup"
    /\ LET hd == handlers[h]
           entry == hd.batch.logs[hd.i]
           key == DedupKey(entry)
           present == key \in dedupCache
       IN  /\ dedupCache' = dedupCache \cup {key}
           /\ admits' = Append(admits, [stream |-> h, entry |-> entry, at |-> now,
                                        admitted |-> ~present])
           /\ IF present
              THEN /\ handlers' = [handlers EXCEPT ![h] =
                                      NextEntry([hd EXCEPT !.duplicate = @ + 1])]
                   /\ metrics' = [metrics EXCEPT !.logsDuplicate = @ + 1]
              ELSE /\ handlers' = [handlers EXCEPT ![h] = [hd EXCEPT !.pc = "timer"]]
                   /\ UNCHANGED metrics
    /\ UNCHANGED <<cfgVars, timing, sideVars, policyVars, agentVars, timers, now, inbox,
                   w_buffer, w_ins, store>>

\* isDuplicate: time.AfterFunc(60*time.Second, func() { Delete(hash) })
IsDuplicateAfterFunc(h) ==
    /\ handlers[h].pc = "timer"
    /\ LET hd == handlers[h]
       IN  timers' = timers \cup {[key |-> DedupKey(hd.batch.logs[hd.i]), at |-> ExpiryAt(now)]}
    /\ handlers' = [handlers EXCEPT ![h].pc = "submit"]
    /\ UNCHANGED <<cfgVars, timing, sideVars, policyVars, agentVars, dedupCache, now, inbox,
                   w_buffer, w_ins, store, metrics, admits>>

\* mutant: the entry is dropped instead of queued
Enqueue_Dropped(q, entry) == q

\* s.logChan <- entry
Enqueue(q, entry) == Append(q, entry)

\* s.logChan <- entry: blocks while the inbox is full
StreamSubmit(h) ==
    /\ handlers[h].pc = "submit"
    /\ Len(inbox) < InboxCap
    /\ LET hd == handlers[h]
       IN  /\ inbox' = Enqueue(inbox, hd.batch.logs[hd.i])
           /\ handlers' = [handlers EXCEPT ![h] = NextEntry([hd EXCEPT !.processed = @ + 1])]
    /\ metrics' = [metrics EXCEPT !.logsProcessed = @ + 1]
    /\ UNCHANGED <<cfgVars, timing, sideVars, policyVars, agentVars, dedupCache, timers, now,
                   w_buffer, w_ins, store, admits>>

\* stream.Send of the SUCCESS ack; StreamLogs returns when it fails
StreamAck(h) ==
    /\ handlers[h].pc = "ack"
    /\ LET hd == handlers[h]
       IN  \E ok \in BOOLEAN :
              handlers' = [handlers EXCEPT ![h] =
                  [hd EXCEPT !.pc = IF ok THEN "recv" ELSE "closed",
                             !.acks = Append(@, Ack(hd.batch, "SUCCESS", hd.processed))]]
    /\ UNCHANGED <<cfgVars, timing, sideVars, policyVars, agentVars, dedupCache, timers, now,
                   inbox, w_buffer, w_ins, store, metrics, admits>>

\* stream.Recv returns io.EOF or an error: StreamLogs returns
StreamClose(h) ==
    /\ handlers[h].pc = "recv"
    /\ handlers' = [handlers EXCEPT ![h].pc = "closed"]
    /\ UNCHANGED <<dedupCache, timers, now, inbox, w_buffer, w_ins, store, metrics, admits>>

\* the steps a handler takes between two calls of stream.Recv
StreamLogsStep(h) ==
    \/ IsDuplicateLoadOrStore(h)
    \/ IsDuplicateAfterFunc(h)
    \/ StreamSubmit(h)
    \/ StreamAck(h)

\* a deferred deletion runs: s.dedupCache.Delete(hash)
TimerFire ==
    /\ \E t \in timers :
          /\ t.at <= now
          /\ dedupCache' = dedupCache \ {t.key}
          /\ timers' = timers \ {t}
    /\ UNCHANGED <<cfgVars, timing, sideVars, policyVars, agentVars, handlers, now, inbox,
                   w_buffer, w_ins, store, metrics, admits>>

\* Time passes.  A deferred deletion runs no later than MaxTimerLag after it
\* is due, and no time passes between LoadOrStore and the time.AfterFunc
\* that follows it.
TickTo(last) ==
    /\ now < last
    /\ \A h \in Streams : handlers[h].pc # "timer"
    /\ \A t \in timers : now < t.at + MaxTimerLag
    /\ now' = Min({now + TickStep, last} \cup {t.at + MaxTimerLag : t \in timers})
    /\ UNCHANGED <<cfgVars, timing, sideVars, policyVars, agentVars, handlers, dedupCache,
                   timers, inbox, w_buffer, w_ins, store, metrics, admits>>

\* time passes, up to the instant MaxTime
Tick == TickTo(MaxTime)

(***************************************************************************)
(* The ingestion service: batchWriter and insertBatch                      *)
(* (services/ingestion-service/main.go:162-224).                           *)
(***************************************************************************)
\* how an insertBatch call ends
InsertOutcomes == {"inserted", "prepare failed", "append failed", "send failed"}

\* time.Now().Unix() when the service starts: the clock of the model counts
\* the seconds since then, and the start is more than two minutes after the
\* epoch
StartUnix == 1000

\* time.Now().Unix()
UnixNow == StartUnix + now

\* batchWriter is in its select.  pc: "insert" from the call of insertBatch
\* to the return of batch.Send, "failed" before s.insertsFailed.Add,
\* "count" before s.logsInserted.Add, "stamp" before
\* s.lastInsertTime.Store; logs: the slice insertBatch was called with.
\* From the call on w_buffer is the slice of the next round, which
\* batchWriter makes when insertBatch has returned and cannot touch before.
InsertIdle == [pc |-> "select", logs |-> << >>]

\* s.insertBatch(buffer)
InsertCalled(logs) == [pc |-> "insert", logs |-> logs]

\* the row batch.Append gets for an entry: an entry without a service is
\* stored with the service "unknown"
Row(entry) == [entry EXCEPT !.service = IF @ = << >> THEN Unknown ELSE @]

Rows(logs) == [i \in 1..Len(logs) |-> Row(logs[i])]

\* mutant: the rows of a batch whose Send returned an error are in the table
Committed_DespiteSendError(outcome, logs) ==
    IF outcome \in {"inserted", "send failed"} THEN Rows(logs) ELSE << >>

\* the rows insertBatch adds to the table: all of them when batch.Send
\* returned nil; none when PrepareBatch failed, when an Append failed (the
\* deferred batch.Abort drops the rows appended so far) or when Send failed
Committed(outcome, logs) == IF outcome = "inserted" THEN Rows(logs) ELSE << >>

\* insertBatch from PrepareBatch to the return of batch.Send: the rows
\* reach the table only when PrepareBatch, every Append and Send succeed;
\* insertBatch returns at once when PrepareBatch or an Append failed
InsertSend ==
    /\ w_ins.pc = "insert"
    /\ \E outcome \in InsertOutcomes :
          /\ store' = store \o Committed(outcome, w_ins.logs)
          /\ w_ins' = CASE outcome = "inserted" -> [w_ins EXCEPT !.pc = "count"]
                        [] outcome = "send failed" -> [w_ins EXCEPT !.pc = "failed"]
                        [] OTHER -> InsertIdle
    /\ UNCHANGED <<cfgVars, policyVars, agentVars, timing, sideVars, handlers, dedupCache,
                   timers, now, inbox, w_buffer, metrics, admits>>

\* s.insertsFailed.Add(1); return
InsertFailed ==
    /\ w_ins.pc = "failed"
    /\ metrics' = [metrics EXCEPT !.insertsFailed = @ + 1]
    /\ w_ins' = InsertIdle
    /\ UNCHANGED <<cfgVars, policyVars, agentVars, timing, sideVars, handlers, dedupCache,
                   timers, now, inbox, w_buffer, store, admits>>

\* s.logsInserted.Add(uint64(len(logs)))
InsertCount ==
    /\ w_ins.pc = "count"
    /\ metrics' = [metrics EXCEPT !.logsInserted = @ + Len(w_ins.logs)]
    /\ w_ins' = [w_ins EXCEPT !.pc = "stamp"]
    /\ UNCHANGED <<cfgVars, policyVars, agentVars, timing, sideVars, handlers, dedupCache,
                   timers, now, inbox, w_buffer, store, admits>>

\* s.lastInsertTime.Store(time.Now().Unix()); insertBatch returns
InsertStamp ==
    /\ w_ins.pc = "stamp"
    /\ metrics' = [metrics EXCEPT !.lastInsertTime = UnixNow]
    /\ w_ins' = InsertIdle
    /\ UNCHANGED <<cfgVars, policyVars, agentVars, timing, sideVars, handlers, dedupCache,
                   timers, now, inbox, w_buffer, store, admits>>

\* the steps of insertBatch
InsertBatchStep ==
    \/ InsertSend
    \/ InsertFailed
    \/ InsertCount
    \/ InsertStamp

\* the slice insertBatch holds and has not sent yet
InInsert == IF w_ins.pc = "insert" THEN w_ins.logs ELSE << >>

\* mutant: the slice is flushed only once it holds more than batchSize
SliceFull_After(buffer) == Len(buffer) > IngestBatchSize

\* if len(buffer) >= batchSize
SliceFull(buffer) == Len(buffer) >= IngestBatchSize

\* case entry := <-s.logChan
WriterRecv ==
    /\ w_ins.pc = "select"
    /\ Len(inbox) > 0
    /\ LET buffer == Append(w_buffer, Head(inbox))
       IN  IF SliceFull(buffer)
           THEN w_ins' = InsertCalled(buffer) /\ w_buffer' = << >>
           ELSE w_buffer' = buffer /\ UNCHANGED w_ins
    /\ UNCHANGED <<store, metrics>>
    /\ inbox' = Tail(inbox)
    /\ timing' = [timing EXCEPT !.w_first = FirstAppended(@, w_buffer')]
    /\ UNCHANGED <<cfgVars, policyVars, agentVars, sideVars, handlers, dedupCache, timers, now,
                   admits>>

\* case <-ticker.C with len(buffer) > 0, with the ticker's next tick at nextTick
WriterOnTick(nextTick) ==
    /\ w_ins.pc = "select"
    /\ Len(w_buffer) > 0
    /\ w_ins' = InsertCalled(w_buffer)
    /\ w_buffer' = << >>
    /\ UNCHANGED <<store, metrics>>
    /\ timing' = [timing EXCEPT !.w_tick = nextTick, !.w_first = NoTime]
    /\ UNCHANGED <<cfgVars, policyVars, agentVars, sideVars, handlers, dedupCache, timers, now,
                   inbox, admits>>

\* case <-ticker.C with len(buffer) == 0: nothing but the ticker moves on
WriterIdleTick(nextTick) ==
    /\ w_ins.pc = "select"
    /\ Len(w_buffer) = 0
    /\ timing' = [timing EXCEPT !.w_tick = nextTick]
    /\ UNCHANGED <<cfgVars, policyVars, agentVars, ingVars, sideVars>>

\* case <-ticker.C, at whatever moment the tick comes
WriterTick == WriterOnTick(timing.w_tick)

\* case <-ticker.C, when a tick of the 5 s ticker waits in its channel
WriterTickDue ==
    /\ now >= timing.w_tick
    /\ \/ WriterOnTick(NextTick(timing.w_tick, BatchTimeout))
       \/ WriterIdleTick(NextTick(timing.w_tick, BatchTimeout))

\* the tailer is between two lines, or waits in a.logChan <- entry
TailerWaits == tl.pc = "idle" \/ (tl.pc = "send" /\ Len(a_queue) >= AgentLogChanCap)

\* batchSender waits in its select with nothing to receive, or in Send
\* for the receiver to read
BatcherWaits ==
    IF a_snd.pc = "select" THEN a_queue = << >> \/ ~Started
    ELSE st_up /\ Len(wire) >= SendWindow

\* the handler waits in stream.Recv, or in s.logChan <- entry, or is gone
HandlerWaits(h) ==
    \/ handlers[h].pc \in {"recv", "closed"}
    \/ handlers[h].pc = "submit" /\ Len(inbox) >= InboxCap

\* batchWriter waits in its select with nothing to receive, or in
\* insertBatch for the database
WriterWaits ==
    \/ w_ins.pc = "select" /\ inbox = << >>
    \/ w_ins.pc = "insert"

\* no goroutine has a step it can take at once: each waits for a line,
\* for a channel, for a tick, for the network or for the database
Quiet ==
    /\ TailerWaits
    /\ BatcherWaits
    /\ \A h \in Streams : HandlerWaits(h)
    /\ WriterWaits

\* the tickers of the two flush loops
Tickers == {"batchSender", "batchWriter"}

\* no tick of the ticker waits in its channel, or the goroutine that reads
\* the channel is not in its select
NoTickToTake(ticker) ==
    IF ticker = "batchSender" THEN a_snd.pc = "select" => now < timing.a_tick
    ELSE w_ins.pc = "select" => now < timing.w_tick

\* Time passes, one second at a time up to the instant last, when the
\* goroutines have done what they can do at once: a goroutine that waits
\* in its select takes a tick when it comes, one that is inside sendBatch
\* or insertBatch leaves it in the ticker's channel.
ClockTick(tickers, last) ==
    /\ now < last
    /\ Quiet
    /\ \A ticker \in tickers : NoTickToTake(ticker)
    /\ now' = now + 1
    /\ UNCHANGED <<cfgVars, policyVars, agentVars, timing, sideVars, handlers, dedupCache,
                   timers, inbox, w_buffer, w_ins, store, metrics, admits>>

BatchWriterStep ==
    \/ WriterRecv
    \/ WriterTick
    \/ InsertBatchStep

(***************************************************************************)
(* The ingestion service: healthHandler                                    *)
(* (services/ingestion-service/main.go:227-252).                           *)
(***************************************************************************)
\* no request for /health has been answered yet
NoResponse == [status |-> "none", code |-> 0]

\* 2*time.Minute, in seconds
HealthWindow == 120

\* mutant: an insert exactly two minutes old still counts
Healthy_Inclusive(lastInsert, unixNow) == unixNow - lastInsert <= HealthWindow

\* healthy := time.Since(time.Unix(lastInsertTime, 0)) < 2*time.Minute; the
\* clock of the model counts whole seconds, where the code compares the
\* time of the request with the second the insert fell in
Healthy(lastInsert, unixNow) == unixNow - lastInsert < HealthWindow

\* the status of the response body and the HTTP status code
HealthResponse(lastInsert, unixNow) ==
    IF Healthy(lastInsert, unixNow)
    THEN [status |-> "healthy", code |-> 200]
    ELSE [status |-> "unhealthy", code |-> 503]

\* healthHandler answers a request
HealthHandler ==
    /\ health' = HealthResponse(metrics.lastInsertTime, UnixNow)
    /\ UNCHANGED <<cfgVars, policyVars, agentVars, ingVars, timing, cb, execs, cbh, retry,
                   a_failed, a_proc, tf>>

(***************************************************************************)
(* The agent's circuit breaker (agents/go-agent/resilience.go:144-270).    *)
(***************************************************************************)
\* cb.halfOpenMax, set by NewCircuitBreaker
HalfOpenMax == 3

\* the last instant of the breaker's clock, in seconds
BreakerHorizon == 3 * ResetTimeout + 1

\* the goroutines that call Execute on the one breaker
Callers == 1 .. (HalfOpenMax + 1)

\* NewCircuitBreaker: state StateClosed, no failure counted; lastFailTime is
\* the zero time.Time, which is before every instant of the clock
NewCircuitBreaker ==
    [state |-> "CLOSED", failures |-> 0, lastFailTime |-> NoTime, halfOpenCount |-> 0]

\* a goroutine outside Execute; period is the HALF_OPEN period whose
\* beforeRequest let the running call through, 0 for a call let through
\* in another state
ExecIdle == [pc |-> "idle", period |-> 0]

\* history of a new breaker: no call has been made.  streak: the calls that
\* failed since the last call that succeeded, in the order of afterRequest;
\* period: the HALF_OPEN periods so far; probes: the calls beforeRequest
\* let through in the current period, the one that started it included;
\* wins: the calls of the current period that succeeded; calls: the calls
\* of Execute; rejected: those beforeRequest turned away; last: what the
\* last step of a caller was
HistoryZero ==
    [streak |-> 0, probes |-> 0, wins |-> 0, period |-> 0, calls |-> 0, rejected |-> 0,
     last |-> "none"]

\* mutant: the timeout counts as elapsed at the very instant it ends
TimeoutElapsed_AtOnce(b, t) == t - b.lastFailTime >= ResetTimeout

\* time.Since(cb.lastFailTime) > cb.resetTimeout
TimeoutElapsed(b, t) == t - b.lastFailTime > ResetTimeout

\* beforeRequest at time t: the breaker afterwards, and whether an error is
\* returned, in which case Execute returns it without calling fn
BeforeRequest(b, t) ==
    CASE b.state = "OPEN" ->
             IF TimeoutElapsed(b, t)
             THEN [cb |-> [b EXCEPT !.state = "HALF_OPEN", !.halfOpenCount = 0],
                   err |-> FALSE]
             ELSE [cb |-> b, err |-> TRUE]
      [] b.state = "HALF_OPEN" ->
             IF b.halfOpenCount >= HalfOpenMax
             THEN [cb |-> b, err |-> TRUE]
             ELSE [cb |-> [b EXCEPT !.halfOpenCount = @ + 1], err |-> FALSE]
      [] OTHER -> [cb |-> b, err |-> FALSE]

\* mutant: the breaker opens one failure late
Opens_After(failures) == failures > MaxFailures

\* if cb.failures >= cb.maxFailures
Opens(failures) == failures >= MaxFailures

\* mutant: the breaker closes one success late
Closes_After(count) == count > HalfOpenMax

\* if cb.halfOpenCount >= cb.halfOpenMax, in afterRequest
Closes(count) == count >= HalfOpenMax

\* afterRequest at time t, for a call of fn that failed or not
AfterRequest(b, failed, t) ==
    IF failed
    THEN LET f == [b EXCEPT !.failures = @ + 1, !.lastFailTime = t]
         IN  CASE b.state = "CLOSED" ->
                      IF Opens(f.failures) THEN [f EXCEPT !.state = "OPEN"] ELSE f
               [] b.state = "HALF_OPEN" ->
                      [f EXCEPT !.state = "OPEN", !.halfOpenCount = 0]
               [] OTHER -> f
    ELSE CASE b.state = "CLOSED" -> [b EXCEPT !.failures = 0]
           [] b.state = "HALF_OPEN" ->
                  IF Closes(b.halfOpenCount)
                  THEN [b EXCEPT !.state = "CLOSED", !.failures = 0, !.halfOpenCount = 0]
                  ELSE b
           [] OTHER -> b

\* Execute, up to the call of fn: beforeRequest under cb.mu; an error is
\* returned to the caller, otherwise fn is running
ExecuteBefore(c) ==
    /\ execs[c].pc = "idle"
    /\ cbh.calls < MaxCalls
    /\ LET r == BeforeRequest(cb, now)
           starts == cb.state = "OPEN" /\ r.cb.state = "HALF_OPEN"
           period == IF starts THEN cbh.period + 1 ELSE cbh.period
       IN  /\ cb' = r.cb
           /\ execs' = IF r.err THEN execs
                       ELSE [execs EXCEPT ![c] =
                                [pc |-> "fn",
                                 period |-> IF r.cb.state = "HALF_OPEN" THEN period ELSE 0]]
           /\ cbh' = [cbh EXCEPT
                         !.calls = @ + 1,
                         !.period = period,
                         !.probes = CASE starts -> 1
                                      [] cb.state = "HALF_OPEN" /\ ~r.err -> @ + 1
                                      [] OTHER -> @,
                         !.wins = IF starts THEN 0 ELSE @,
                         !.rejected = IF r.err THEN @ + 1 ELSE @,
                         !.last = IF r.err THEN "rejected" ELSE "admitted"]
    /\ UNCHANGED <<cfgVars, policyVars, agentVars, ingVars, timing, health, retry,
                   a_failed, a_proc, tf>>

\* Execute, from the return of fn: afterRequest under cb.mu with fn's error
ExecuteAfter(c, failed) ==
    /\ execs[c].pc = "fn"
    /\ cb' = AfterRequest(cb, failed, now)
    /\ execs' = [execs EXCEPT ![c] = ExecIdle]
    /\ cbh' = [cbh EXCEPT
                  !.streak = IF failed THEN @ + 1 ELSE 0,
                  !.wins = IF ~failed /\ cb.state = "HALF_OPEN"
                              /\ execs[c].period = cbh.period
                           THEN @ + 1 ELSE @,
                  !.last = IF failed THEN "failed" ELSE "ok"]
    /\ UNCHANGED <<cfgVars, policyVars, agentVars, ingVars, timing, health, retry,
                   a_failed, a_proc, tf>>

\* a second passes
BreakerTick ==
    /\ now < BreakerHorizon
    /\ now' = now + 1
    /\ UNCHANGED <<cfgVars, policyVars, agentVars, timing, sideVars, handlers, dedupCache,
                   timers, inbox, w_buffer, w_ins, store, metrics, admits>>

(***************************************************************************)
(* RetryWithBackoff (agents/go-agent/resilience.go:38-141).                *)
(***************************************************************************)
\* DefaultRetryConfig().MaxRetries
DefaultMaxRetries == 5

\* the MaxRetries DialWithRetry sets
DialMaxRetries == 10

\* the values of config.MaxRetries RetryWithBackoff is called with
MaxRetriesInputs == {0, 1, DefaultMaxRetries, DialMaxRetries}

\* An error is [kind, code, text]: kind "nil" for nil, "status" for a gRPC
\* status error with its code, "plain" for any other error with the text
\* of Error(), a sequence of characters.
NoError == [kind |-> "nil", code |-> "", text |-> << >>]

StatusError(code) == [kind |-> "status", code |-> code, text |-> << >>]

PlainError(text) == [kind |-> "plain", code |-> "", text |-> text]

\* context.Canceled: "context canceled"
CtxCanceled ==
    PlainError(
        <<"c", "o", "n", "t", "e", "x", "t", " ", "c", "a", "n", "c", "e", "l", "e",
          "d">>)

\* context.DeadlineExceeded: "context deadline exceeded"
CtxDeadlineExceeded ==
    PlainError(
        <<"c", "o", "n", "t", "e", "x", "t", " ", "d", "e", "a", "d", "l", "i", "n",
          "e", " ", "e", "x", "c", "e", "e", "d", "e", "d">>)

\* the gRPC codes fn returns: the eight isRetryable names, and one it leaves
\* to the default case
GrpcCodes ==
    {"Unavailable", "ResourceExhausted", "Aborted", "DeadlineExceeded", "Canceled",
     "InvalidArgument", "NotFound", "PermissionDenied", "Internal"}

\* the texts of the errors fn returns that are no gRPC status: "timeout",
\* "i/o timeout", "EOF", "read: connection reset by peer"
PlainTexts ==
    {<<"t", "i", "m", "e", "o", "u", "t">>,
     <<"i", "/", "o", " ", "t", "i", "m", "e", "o", "u", "t">>,
     <<"E", "O", "F">>,
     <<"r", "e", "a", "d", ":", " ", "c", "o", "n", "n", "e", "c", "t", "i", "o", "n",
       " ", "r", "e", "s", "e", "t", " ", "b", "y", " ", "p", "e", "e", "r">>}

\* what a call of fn returns
FnResults ==
    {NoError} \cup {StatusError(code) : code \in GrpcCodes}
              \cup {PlainError(text) : text \in PlainTexts}

\* transientPatterns
TransientPatterns ==
    <<<<"c", "o", "n", "n", "e", "c", "t", "i", "o", "n", " ", "r", "e", "f", "u", "s",
        "e", "d">>,
      <<"c", "o", "n", "n", "e", "c", "t", "i", "o", "n", " ", "r", "e", "s", "e", "t">>,
      <<"b", "r", "o", "k", "e", "n", " ", "p", "i", "p", "e">>,
      <<"t", "i", "m", "e", "o", "u", "t">>,
      <<"d", "e", "a", "d", "l", "i", "n", "e", " ", "e", "x", "c", "e", "e", "d", "e",
        "d">>,
      <<"t", "e", "m", "p", "o", "r", "a", "r", "y", " ", "f", "a", "i", "l", "u", "r",
        "e">>,
      <<"t", "r", "y", " ", "a", "g", "a", "i", "n">>>>

\* findSubstring(s, substr)
FindSubstring(str, substr) ==
    \E i \in 0..(Len(str) - Len(substr)) : SubSeq(str, i + 1, i + Len(substr)) = substr

\* contains(s, substr)
Contains(str, substr) ==
    /\ Len(str) >= Len(substr)
    /\ \/ str = substr
       \/ /\ Len(str) > Len(substr)
          /\ \/ SubSeq(str, 1, Len(substr)) = substr
             \/ SubSeq(str, Len(str) - Len(substr) + 1, Len(str)) = substr
             \/ Len(str) > Len(substr) * 2 /\ FindSubstring(str, substr)

\* mutant: every gRPC code is retried
RetryableCode_Any(code) == TRUE

\* the switch on st.Code()
RetryableCode(code) ==
    code \in {"Unavailable", "ResourceExhausted", "Aborted", "DeadlineExceeded"}

\* isRetryable(err)
IsRetryable(err) ==
    CASE err.kind = "nil" -> FALSE
      [] err.kind = "status" -> RetryableCode(err.code)
      [] OTHER -> \E i \in 1..Len(TransientPatterns) :
                     Contains(err.text, TransientPatterns[i])

\* RetryWithBackoff has not been called.  pc: "call" inside fn, "wait" in
\* the select of the backoff, "done" after the return; calls: how many
\* times fn has been called; ctxErr: ctx.Err(); result: how the function
\* returned ("nil", "err" for lastErr itself, "wrapped" for the error that
\* wraps lastErr, "ctx" for ctx.Err()) and the error
RetryIdle ==
    [pc |-> "idle", maxRetries |-> 0, attempt |-> 0, lastErr |-> NoError, calls |-> 0,
     ctxErr |-> NoError, result |-> [how |-> "none", err |-> NoError]]

\* RetryWithBackoff is called: attempt 0 calls fn without waiting
RetryStart(maxRetries) ==
    /\ retry.pc = "idle"
    /\ retry' = [retry EXCEPT !.pc = "call", !.maxRetries = maxRetries]
    /\ UNCHANGED <<cfgVars, policyVars, agentVars, ingVars, timing, health, cb, execs, cbh,
                   a_failed, a_proc, tf>>

\* mutant: the loop runs once more
LoopContinues_OnceMore(attempt, maxRetries) == attempt <= maxRetries + 1

\* attempt <= config.MaxRetries
LoopContinues(attempt, maxRetries) == attempt <= maxRetries

\* the call after fn returned err: nil and an error that is not retryable
\* are returned at once; otherwise attempt++ and the loop goes on to the
\* backoff wait, or ends with the error that wraps lastErr
AfterCall(r, err) ==
    LET called == [r EXCEPT !.calls = @ + 1, !.lastErr = err]
    IN  CASE err = NoError ->
                 [called EXCEPT !.pc = "done", !.result = [how |-> "nil", err |-> NoError]]
          [] ~IsRetryable(err) ->
                 [called EXCEPT !.pc = "done", !.result = [how |-> "err", err |-> err]]
          [] LoopContinues(r.attempt + 1, r.maxRetries) ->
                 [called EXCEPT !.pc = "wait", !.attempt = @ + 1]
          [] OTHER ->
                 [called EXCEPT !.pc = "done", !.attempt = @ + 1,
                                !.result = [how |-> "wrapped", err |-> err]]

\* lastErr = fn(), and what follows up to the next wait or the return
RetryCall(err) ==
    /\ retry.pc = "call"
    /\ retry' = AfterCall(retry, err)
    /\ UNCHANGED <<cfgVars, policyVars, agentVars, ingVars, timing, health, cb, execs, cbh,
                   a_failed, a_proc, tf>>

\* the select of the backoff: ctx.Done() when the context is done by the
\* time the delay, which is positive, is over; time.After(delay) otherwise
RetryWait ==
    /\ retry.pc = "wait"
    /\ retry' = IF retry.ctxErr # NoError
                THEN [retry EXCEPT !.pc = "done",
                                   !.result = [how |-> "ctx", err |-> retry.ctxErr]]
                ELSE [retry EXCEPT !.pc = "call"]
    /\ UNCHANGED <<cfgVars, policyVars, agentVars, ingVars, timing, health, cb, execs, cbh,
                   a_failed, a_proc, tf>>

\* the context is cancelled or its deadline passes
RetryCancel(err) ==
    /\ retry.pc # "done"
    /\ retry.ctxErr = NoError
    /\ retry' = [retry EXCEPT !.ctxErr = err]
    /\ UNCHANGED <<cfgVars, policyVars, agentVars, ingVars, timing, health, cb, execs, cbh,
                   a_failed, a_proc, tf>>

(***************************************************************************)
(* The agent's process and its tailFile goroutine                          *)
(* (agents/go-agent/main.go:149-197, 297-367).                             *)
(***************************************************************************)
\* the process runs and has lost nothing
ProcUp == [up |-> TRUE, lost |-> 0]

\* The process gets SIGTERM or SIGINT.  main installs no handler and ends
\* in select {}, so the Go runtime ends the process at once: the goroutines
\* stop where they are, what the send queue and the batcher's buffer hold is
\* gone, and the connection closes with the batches still in flight
\* delivered or not.
AgentSignal ==
    /\ a_proc.up
    /\ a_proc' = [up |-> FALSE, lost |-> Len(a_buffer)]
    /\ a_queue' = << >>
    /\ a_buffer' = << >>
    /\ a_snd' = SendIdle
    /\ st_up' = FALSE
    /\ \E kept \in 0..Len(wire) :
          /\ wire' = SubSeq(wire, 1, kept)
          /\ losses' = losses + (Len(wire) - kept)
    /\ UNCHANGED <<ingVars, cfgVars, policyVars, timing, resVars, a_failed, tf, tl, lines,
                   batchID>>

\* tailFile has not opened its file, which is empty.  pc: "open" at the
\* start, "seek" before file.Seek, "scan" in the scan of the existing
\* lines, "add" before the watcher.Add that follows the scan, "watch" in
\* the select on watcher.Events, "read" with a Write event taken and
\* file.Read not yet called, "lines" in the loop over the lines of a chunk.
\* data: the bytes of the file; off: the offset of the open file; events:
\* the Write events waiting in watcher.Events; buf, eof: the scanner's
\* buffer and whether it saw the end of the file; todo: the pieces of the
\* chunk the loop has not reached; out: history, the non-empty lines
\* handed to parseLog
TailFileIdle ==
    [pc |-> "open", data |-> << >>, off |-> 0, events |-> 0, out |-> << >>,
     buf |-> << >>, eof |-> FALSE, todo |-> << >>]

\* make([]byte, 4096): the most one file.Read returns
ReadChunk == 4096

\* the index of the first newline of str, 0 when it has none
FirstNewline(str) ==
    IF \A i \in 1..Len(str) : str[i] # "\n" THEN 0
    ELSE CHOOSE i \in 1..Len(str) : str[i] = "\n" /\ \A j \in 1..(i - 1) : str[j] # "\n"

\* strings.Split(str, "\n")
RECURSIVE StringsSplit(_)
StringsSplit(str) ==
    LET i == FirstNewline(str)
    IN  IF i = 0 THEN <<str>>
        ELSE <<SubSeq(str, 1, i - 1)>> \o StringsSplit(SubSeq(str, i + 1, Len(str)))

\* the first read of a bufio.Scanner fills its buffer of 4096 bytes
ScanChunk == 4096

\* dropCR of bufio.ScanLines
DropCR(line) ==
    IF Len(line) > 0 /\ line[Len(line)] = "\r" THEN SubSeq(line, 1, Len(line) - 1)
    ELSE line

\* out with one more line handed to parseLog; parseLog returns nil for the
\* empty line, which is left out
HandedOver(out, line) == IF line = << >> THEN out ELSE Append(out, line)

\* what a process appends to the file with one write
WriteChunks == {<<"x">>, <<"y", "\n">>, <<"\n">>, <<"x", "\n", "y">>}

\* A process appends to the watched file.  Once the watcher is added the
\* write queues a Write event, which the kernel may merge with an equal
\* event that is still unread.
FileWrite(chunk) ==
    /\ Len(tf.data) + Len(chunk) <= MaxFileLen
    /\ \E merged \in BOOLEAN :
          tf' = [tf EXCEPT !.data = @ \o chunk,
                           !.events = CASE tf.pc \in {"open", "scan", "add"} -> @
                                        [] merged /\ @ > 0 -> @
                                        [] OTHER -> @ + 1]
    /\ UNCHANGED <<cfgVars, policyVars, agentVars, ingVars, timing, resVars, a_failed, a_proc>>

\* tailFile up to the first use of the file: go-agent adds the watcher and
\* opens the file, the other build opens the file and makes a scanner
TailOpen ==
    /\ tf.pc = "open"
    /\ tf' = [tf EXCEPT !.pc = IF a_build = "part_004" THEN "scan" ELSE "seek"]
    /\ UNCHANGED <<cfgVars, policyVars, agentVars, ingVars, timing, resVars, a_failed, a_proc>>

\* go-agent: file.Seek(0, io.SeekEnd)
TailSeek ==
    /\ tf.pc = "seek"
    /\ tf' = [tf EXCEPT !.pc = "watch", !.off = Len(tf.data)]
    /\ UNCHANGED <<cfgVars, policyVars, agentVars, ingVars, timing, resVars, a_failed, a_proc>>

\* scanner.Scan() finds no whole line in its buffer and reads the file, up
\* to the end the file has at that moment; a read of nothing is the end
TailScanRead ==
    /\ tf.pc = "scan"
    /\ FirstNewline(tf.buf) = 0
    /\ ~tf.eof
    /\ LET n == Min({ScanChunk, Len(tf.data) - tf.off})
       IN  tf' = [tf EXCEPT !.buf = @ \o SubSeq(tf.data, tf.off + 1, tf.off + n),
                            !.off = @ + n,
                            !.eof = n = 0]
    /\ UNCHANGED <<cfgVars, policyVars, agentVars, ingVars, timing, resVars, a_failed, a_proc>>

\* scanner.Scan() returns the next line of its buffer, which is handed to
\* parseLog; at the end of the file what is left in the buffer is the last
\* line, and with nothing left the scan is over
TailScanLine ==
    /\ tf.pc = "scan"
    /\ LET i == FirstNewline(tf.buf)
       IN  CASE i > 0 ->
                    tf' = [tf EXCEPT !.buf = SubSeq(@, i + 1, Len(@)),
                                     !.out = HandedOver(@, DropCR(SubSeq(tf.buf, 1, i - 1)))]
             [] i = 0 /\ tf.eof /\ tf.buf # << >> ->
                    tf' = [tf EXCEPT !.buf = << >>, !.out = HandedOver(@, DropCR(tf.buf))]
             [] i = 0 /\ tf.eof /\ tf.buf = << >> ->
                    tf' = [tf EXCEPT !.pc = "add"]
             [] OTHER -> FALSE
    /\ UNCHANGED <<cfgVars, policyVars, agentVars, ingVars, timing, resVars, a_failed, a_proc>>

\* watcher.Add(path) after the scan
TailWatch ==
    /\ tf.pc = "add"
    /\ tf' = [tf EXCEPT !.pc = "watch"]
    /\ UNCHANGED <<cfgVars, policyVars, agentVars, ingVars, timing, resVars, a_failed, a_proc>>

\* case event := <-watcher.Events, with a Write event
TailTake ==
    /\ tf.pc = "watch"
    /\ tf.events > 0
    /\ tf' = [tf EXCEPT !.pc = "read", !.events = @ - 1]
    /\ UNCHANGED <<cfgVars, policyVars, agentVars, ingVars, timing, resVars, a_failed, a_proc>>

\* one file.Read of at most 4096 bytes from the offset, and
\* strings.Split(string(data[:n]), "\n") when it read something
TailRead ==
    /\ tf.pc = "read"
    /\ LET n == Min({ReadChunk, Len(tf.data) - tf.off})
       IN  tf' = [tf EXCEPT !.pc = IF n > 0 THEN "lines" ELSE "watch",
                            !.off = @ + n,
                            !.todo = IF n > 0
                                     THEN StringsSplit(SubSeq(tf.data, tf.off + 1, tf.off + n))
                                     ELSE << >>]
    /\ UNCHANGED <<cfgVars, policyVars, agentVars, ingVars, timing, resVars, a_failed, a_proc>>

\* for _, line := range lines: the next piece, handed to parseLog when it
\* is not empty
TailHand ==
    /\ tf.pc = "lines"
    /\ tf' = [tf EXCEPT !.pc = IF Len(tf.todo) > 1 THEN "lines" ELSE "watch",
                        !.todo = Tail(@),
                        !.out = HandedOver(@, Head(tf.todo))]
    /\ UNCHANGED <<cfgVars, policyVars, agentVars, ingVars, timing, resVars, a_failed, a_proc>>

(***************************************************************************)
(* Initial states.                                                         *)
(***************************************************************************)
\* no health request answered, a new breaker with no caller inside Execute,
\* RetryWithBackoff not called
SidesIdle ==
    /\ health = NoResponse
    /\ cb = NewCircuitBreaker
    /\ execs = [c \in Callers |-> ExecIdle]
    /\ cbh = HistoryZero
    /\ retry = RetryIdle
    /\ a_failed = << >>
    /\ a_proc = ProcUp
    /\ tf = TailFileIdle

\* a buffer's entries at time 0 have been appended just now
FirstAtStart(buffer) == IF Len(buffer) = 0 THEN NoTime ELSE 0

\* both tickers have been created at time 0
TickersStarted ==
    timing = [a_tick |-> BatchWindow, a_first |-> FirstAtStart(a_buffer),
              w_tick |-> BatchTimeout, w_first |-> FirstAtStart(w_buffer)]

\* the ingestion service at time 0 with the given entries in the writer's
\* buffer: a stream that is closed by now brought them in one batch, and
\* they have passed the dedup filter and the inbox
IngestStarted(earlier) ==
    /\ handlers = [h \in Streams |-> HandlerIdle]
    /\ dedupCache = {DedupKey(earlier[i]) : i \in 1..Len(earlier)}
    /\ timers = {[key |-> DedupKey(earlier[i]), at |-> ExpiryAt(0)] : i \in 1..Len(earlier)}
    /\ now = 0
    /\ inbox = << >>
    /\ w_buffer = earlier
    /\ w_ins = InsertIdle
    /\ store = << >>
    /\ metrics = [MetricsZero EXCEPT !.batchesReceived = IF Len(earlier) = 0 THEN 0 ELSE 1,
                                     !.logsReceived = Len(earlier),
                                     !.bytesReceived = Len(earlier) * MarshalBytes,
                                     !.logsProcessed = Len(earlier)]
    /\ admits = [i \in 1..Len(earlier) |->
                    [stream |-> earlier[i].agent_id, entry |-> earlier[i], at |-> 0,
                     admitted |-> TRUE]]

\* the ingestion service after main has started it
IngestIdle == IngestStarted(<< >>)

\* the agent before main's initial fetch
AgentIdle ==
    /\ a_config = DefaultConfig
    /\ a_version = ""
    /\ a_mu = MuFree
    /\ poll = [pc |-> "m_call", cur |-> "", err |-> FALSE, rv |-> "", rp |-> ""]
    /\ tl = TailIdle
    /\ lines = 0
    /\ a_queue = << >>
    /\ a_buffer = << >>
    /\ a_snd = SendIdle
    /\ batchID = 0
    /\ st_up = TRUE
    /\ wire = << >>
    /\ losses = 0

(***************************************************************************)
(* The config service with probing clients.                                *)
(***************************************************************************)
CfgInit ==
    /\ cfgFile \in [readable : BOOLEAN, doc : CfgDocs]
    /\ edits = 0
    /\ s_payload = ""
    /\ s_version = ""
    /\ s_mu = MuFree
    /\ ld = [pc |-> "read", ok |-> FALSE, payload |-> "", version |-> ""]
    /\ serving = FALSE
    /\ loaded = <<"", "">>
    /\ calls = [c \in Probes |-> IdleCall]
    /\ AgentIdle
    /\ IngestIdle
    /\ TickersStarted
    /\ SidesIdle
    /\ a_build = "part_004"

ProbeCall ==
    /\ \E c \in Probes, cur \in RequestVersions : GetConfigCall(c, cur)
    /\ UNCHANGED nonCfgVars

ProbeStep == \E c \in Probes : GetConfigStep(c)

OperatorEdit == (\E d \in CfgDocs : EditFile(d)) \/ RemoveFile

CfgNext ==
    \/ OperatorEdit
    \/ LoadConfigStep
    \/ ProbeCall
    \/ ProbeStep

SpecConfig == CfgInit /\ [][CfgNext]_vars

(***************************************************************************)
(* Properties of the config service.                                       *)
(***************************************************************************)
Returned == {c \in DOMAIN calls : calls[c].pc = "done"}

ReadLocked == {c \in DOMAIN calls : calls[c].pc \in {"compare", "version", "payload", "runlock"}}

\* C5 as stated: every response carries the service's current version, the
\* payload is empty if and only if current_version equals that version, it
\* is otherwise the full stored document, and the response does not depend
\* on agent_id.
C5_PayloadEmptyIffSameVersion ==
    /\ \A c \in Returned :
          /\ calls[c].rv = calls[c].seenV
          /\ (calls[c].rp = "") <=> (calls[c].cur = calls[c].seenV)
          /\ calls[c].cur # calls[c].seenV => calls[c].rp = calls[c].seenP
    /\ \A c, d \in Returned :
          (calls[c].cur = calls[d].cur /\ calls[c].seenV = calls[d].seenV
               /\ calls[c].seenP = calls[d].seenP)
             => (calls[c].rv = calls[d].rv /\ calls[c].rp = calls[d].rp)

\* C5 amended: every response carries the service's current version; the
\* payload is empty when current_version equals that version and is
\* otherwise the full stored document bytes (which are themselves empty when
\* no document was ever loaded or the stored document has zero bytes); the
\* response does not depend on agent_id.
C5_GetConfigContract ==
    /\ \A c \in Returned :
          /\ calls[c].rv = calls[c].seenV
          /\ calls[c].rp = IF calls[c].cur = calls[c].seenV THEN "" ELSE calls[c].seenP
    /\ \A c, d \in Returned :
          (calls[c].cur = calls[d].cur /\ calls[c].seenV = calls[d].seenV
               /\ calls[c].seenP = calls[d].seenP)
             => (calls[c].rv = calls[d].rv /\ calls[c].rp = calls[d].rp)

\* one caller got the empty payload for its matching version while another
\* got the full document for a different version
C5_Witness ==
    \E c, d \in Returned :
        /\ calls[c].cur = calls[c].seenV /\ calls[c].seenV # "" /\ calls[c].rp = ""
        /\ calls[d].cur # calls[d].seenV /\ calls[d].rp # "" /\ calls[d].rp = calls[d].seenP

\* C6: under any interleaving of GetConfig calls with a reload, a response
\* with a payload carries the version that is the content hash of exactly
\* that payload; a reader holds one (version, bytes) pair of the service for
\* the whole call, and whenever no reload is writing, the served version is
\* the hash of the served bytes (so it changes exactly when the hash does).
C6_VersionMatchesPayload ==
    /\ \A c \in Returned :
          calls[c].rp # "" => calls[c].rv = Sha256Hex8(calls[c].rp)
    /\ \A c \in ReadLocked :
          calls[c].seenV = s_version /\ calls[c].seenP = s_payload
    /\ ~s_mu.writer =>
          \/ s_version = "" /\ s_payload = ""
          \/ s_version = Sha256Hex8(s_payload)

\* a call is between reading the version and reading the payload while a
\* reload that carries another version waits for the lock
C6_Witness ==
    \E c \in DOMAIN calls :
        /\ calls[c].pc = "payload"
        /\ ld.pc = "acquire"
        /\ ld.version # s_version
        /\ s_version # ""

\* C7: when a reload fails to read the document, the stored version and
\* payload stay those of the last successful load, and GetConfig keeps
\* serving that pair: never an empty or partial document in its place.
C7_FailedReadKeepsConfig ==
    (~ld.ok /\ ld.pc # "read") =>
        /\ <<s_version, s_payload>> = loaded
        /\ \A c \in ReadLocked : <<calls[c].seenV, calls[c].seenP>> = loaded

\* a call is served from a loaded document after a reload failed to read
C7_Witness ==
    /\ ~ld.ok /\ ld.pc = "sleep"
    /\ loaded[2] # ""
    /\ \E c \in DOMAIN calls : calls[c].pc = "payload" /\ calls[c].seenP = loaded[2]

(***************************************************************************)
(* The agent's policy: config service, poller and one tailer.              *)
(***************************************************************************)
\* the documents the operator puts in the config file while agents poll
PolicyDocs == {"", "all1", "info0", "bad"}

\* the lines the tailer reads while the policy is being reloaded
PolicyLines ==
    {[level |-> INFO, service |-> <<"d", "b">>, message |-> <<"o", "k">>]}

PolicyInit ==
    /\ cfgFile \in [readable : BOOLEAN, doc : PolicyDocs]
    /\ edits = 0
    /\ s_payload = ""
    /\ s_version = ""
    /\ s_mu = MuFree
    /\ ld = [pc |-> "read", ok |-> FALSE, payload |-> "", version |-> ""]
    /\ serving = FALSE
    /\ loaded = <<"", "">>
    /\ calls = [c \in {AgentId} |-> IdleCall]
    /\ AgentIdle
    /\ IngestIdle
    /\ TickersStarted
    /\ SidesIdle
    /\ a_build = "part_004"

PolicyEdit ==
    /\ (\E d \in PolicyDocs : EditFile(d)) \/ RemoveFile

AgentCallStep == GetConfigStep(AgentId)

\* the agent's calls fail: the config service cannot be reached
Unreachable ==
    \/ MainCallError
    \/ PollCallError
    \/ PollResponseError

\* the config service and the agent's poller
PollingNext ==
    \/ PolicyEdit
    \/ LoadConfigStep
    \/ AgentCallStep
    \/ MainCall
    \/ MainResponse
    \/ ConfigPollerStep
    \/ Unreachable

\* the same with a tailer that samples lines under the live policy
PolicyNext ==
    \/ PollingNext
    \/ TailLine(PolicyLines)
    \/ TailerStep

SpecPolicy == PolicyInit /\ [][PolicyNext]_vars

\* Every goroutine keeps running (the reload loop, the gRPC handler, the
\* poller); a handler waiting in RLock gets the lock between two reloads
\* (sync.RWMutex starves nobody, and the reloads are 10 s apart); and an
\* agent that can reach the config service has its calls answered again
\* and again.
PolicyFairness ==
    /\ WF_vars(LoadConfigStep)
    /\ SF_vars(AgentCallStep)
    /\ WF_vars(MainResponse)
    /\ WF_vars(PollRLock \/ PollReadVersion \/ PollLock \/ PollAcquire \/ PollSetConfig
                 \/ PollSetVersion \/ PollUnlock \/ PollTick)
    /\ SF_vars(MainCall)
    /\ SF_vars(PollCall)
    /\ SF_vars(PollResponse)

SpecPolicyLive == PolicyInit /\ [][PollingNext]_vars /\ PolicyFairness

(***************************************************************************)
(* Properties of the agent's policy.                                       *)
(***************************************************************************)
\* the policy and the version of one successfully parsed document, or the
\* built-in default with no version
PolicyPair(version, cfg) ==
    \/ version = "" /\ cfg = DefaultConfig
    \/ \E d \in Docs : /\ d # "" /\ ParseYaml(d).ok
                       /\ version = Sha256Hex8(d) /\ cfg = ParseYaml(d).cfg

\* the file holds document d from some point on
FileStays(d) == <>[](cfgFile.readable /\ cfgFile.doc = d)

\* the agent's live policy and version are those of document d from some
\* point on
AgentStaysAt(d) == <>[](a_version = Sha256Hex8(d) /\ a_config = ParseYaml(d).cfg)

\* C8 as stated: after the document changes to new content and then stays
\* unchanged, a running agent that can reach the config service eventually
\* has the new document as live policy and the new version as live version.
C8_ConvergesToAnyDocument == \A d \in PolicyDocs : FileStays(d) => AgentStaysAt(d)

\* C8 amended: after the document changes to new content that is not empty
\* and parses, and then stays unchanged, a running agent that can reach the
\* config service eventually has the new document as live policy and the
\* new version as live version; every answered poll that brings such a
\* document under a new version leaves the agent at that version.
C8_ConvergesToParsableDocument ==
    /\ [](  (poll.pc = "p_sleep" /\ ~poll.err /\ poll.rv # poll.cur
             /\ poll.rp # "" /\ ParseYaml(poll.rp).ok)
          => (a_version = poll.rv /\ a_config = ParseYaml(poll.rp).cfg))
    /\ \A d \in PolicyDocs :
          (d # "" /\ ParseYaml(d).ok) => (FileStays(d) => AgentStaysAt(d))

\* the poller has swapped the policy to the document the operator put in
\* the file after the agent had loaded another one
C8_Witness ==
    /\ edits > 0 /\ cfgFile.readable
    /\ poll.pc = "p_sleep" /\ ~poll.err
    /\ poll.cur # "" /\ poll.rv # poll.cur
    /\ poll.rv = Sha256Hex8(cfgFile.doc)
    /\ a_version = poll.rv /\ a_config = ParseYaml(cfgFile.doc).cfg

\* C9: a new payload that fails to parse leaves the live policy and the
\* live version unchanged and the poller goes on polling; a payload that
\* parses replaces policy and version together: outside the poller's write
\* lock, and whenever the sampler reads the policy, the two belong to the
\* same document.
C9_ParseFailureKeepsPolicy ==
    /\ ~a_mu.writer => PolicyPair(a_version, a_config)
    /\ tl.pc = "rate" => PolicyPair(a_version, a_config)
    /\ tl.pc \in {"draw", "send"} => \E v \in {""} \cup {Sha256Hex8(d) : d \in Docs} :
                                        PolicyPair(v, tl.cfg)
    /\ (poll.pc = "p_sleep" /\ ~poll.err /\ poll.rv # poll.cur
          /\ poll.rp # "" /\ ~ParseYaml(poll.rp).ok)
        => (a_version = poll.cur /\ PolicyPair(poll.cur, a_config) /\ ENABLED PollTick)

\* the poller has received a document that does not parse while the agent
\* held a loaded policy, and the sampler has read that policy
C9_Witness ==
    /\ poll.pc = "p_sleep" /\ ~poll.err
    /\ poll.rv # poll.cur /\ poll.rp # "" /\ ~ParseYaml(poll.rp).ok
    /\ a_version # ""
    /\ tl.pc = "draw" /\ tl.cfg = a_config

(***************************************************************************)
(* The ingestion service with two client streams that carry entries whose  *)
(* (message, level, service) tuples repeat and collide.                    *)
(***************************************************************************)
\* two tuples that differ in message and in service and get the same dedup
\* key
TupleA == [message |-> <<"a">>, level |-> INFO, service |-> <<"b", "-">> \o INFO \o <<"-", "c">>]

TupleB == [message |-> <<"a", "-">> \o INFO \o <<"-", "b">>, level |-> INFO, service |-> <<"c">>]

DedupTuples == {TupleA, TupleB}

TupleOf(entry) == [message |-> entry.message, level |-> entry.level, service |-> entry.service]

ClientEntry(h, u) ==
    [agent_id |-> h, seq |-> 0, level |-> u.level, service |-> u.service,
     message |-> u.message]

\* the batches the client of stream h sends: one client sends the first
\* tuple twice or the second one alone, the other client sends the first
\* one alone
ClientBatches(h) ==
    {[agent_id |-> h, batch_id |-> 1, logs |-> logs, compression |-> "NONE",
      payload |-> "none"] :
        logs \in IF h = AgentStream
                 THEN {<<ClientEntry(h, TupleA), ClientEntry(h, TupleA)>>,
                       <<ClientEntry(h, TupleB)>>}
                 ELSE {<<ClientEntry(h, TupleA)>>}}

\* the config service is not running
ConfigDown ==
    /\ cfgFile = [readable |-> FALSE, doc |-> ""]
    /\ edits = 0
    /\ s_payload = ""
    /\ s_version = ""
    /\ s_mu = MuFree
    /\ ld = [pc |-> "read", ok |-> FALSE, payload |-> "", version |-> ""]
    /\ serving = FALSE
    /\ loaded = <<"", "">>
    /\ calls = [c \in {AgentId} |-> IdleCall]

DedupInit ==
    /\ ConfigDown
    /\ AgentIdle
    /\ a_build = "part_004"
    /\ IngestIdle
    /\ TickersStarted
    /\ SidesIdle

\* a client's batch arrives on stream h
ClientSend(h) ==
    /\ metrics.batchesReceived < MaxBatches
    /\ \E batch \in ClientBatches(h) : StreamRecvFrom(h, batch)
    /\ UNCHANGED <<cfgVars, timing, sideVars, policyVars, agentVars>>

\* the client of stream h goes away
ClientGone(h) ==
    /\ StreamClose(h)
    /\ UNCHANGED <<cfgVars, timing, sideVars, policyVars, agentVars>>

DedupNext ==
    \/ \E h \in Streams : ClientSend(h)
    \/ \E h \in Streams : StreamLogsStep(h)
    \/ TimerFire
    \/ Tick

SpecDedup == DedupInit /\ [][DedupNext]_vars

(***************************************************************************)
(* Properties of the dedup filter.                                         *)
(***************************************************************************)
\* the positions of admits at which an entry of tuple u was admitted
AdmittedAt(u) == {i \in 1..Len(admits) : admits[i].admitted /\ TupleOf(admits[i].entry) = u}

\* how many entries of tuple u the sequence q holds
CountOf(q, u) == Cardinality({i \in 1..Len(q) : TupleOf(q[i]) = u})

\* C1: of two entries with identical (message, level, service) that are
\* submitted within 60 s of the first one's admission, on the same stream or
\* on different ones, at most one is admitted: two admissions of one tuple
\* are at least 60 s apart, and the inbox, the writer and the store together
\* hold no more entries of a tuple than were admitted.
C1_OneAdmissionPerWindow ==
    \A u \in DedupTuples :
        /\ \A i, j \in AdmittedAt(u) : i < j => admits[j].at - admits[i].at >= DedupWindow
        /\ CountOf(inbox, u) + CountOf(w_buffer, u) + CountOf(store, u)
              <= Cardinality(AdmittedAt(u))

\* two streams submitted the same tuple within the window: the first was
\* admitted, the second was dropped, and later, after the window, the tuple
\* was admitted again, so that the inbox holds it twice
C1_Witness ==
    \E i, j, k \in 1..Len(admits) :
        /\ i < j /\ j < k
        /\ TupleOf(admits[i].entry) = TupleOf(admits[j].entry)
        /\ TupleOf(admits[i].entry) = TupleOf(admits[k].entry)
        /\ admits[i].stream # admits[j].stream
        /\ admits[i].admitted /\ ~admits[j].admitted /\ admits[k].admitted
        /\ admits[j].at - admits[i].at < DedupWindow
        /\ CountOf(inbox, TupleOf(admits[i].entry)) = 2

\* the latest admission of the tuple of admits[j] before position j (0 when
\* there is none)
WindowStart(j) ==
    LET before == {i \in 1..(j - 1) : admits[i].admitted
                                      /\ TupleOf(admits[i].entry) = TupleOf(admits[j].entry)}
    IN  IF before = {} THEN 0 ELSE CHOOSE i \in before : \A k \in before : k <= i

\* C2: once 60 s have elapsed since the sighting that opened a tuple's
\* window, the next entry with that tuple is admitted (and is not counted in
\* logs_duplicate); while the window has not elapsed, every entry with that
\* tuple is dropped.
C2_WindowExpiry ==
    /\ \A j \in 1..Len(admits) :
          LET i == WindowStart(j)
          IN  i # 0 =>
                /\ admits[j].at - admits[i].at > DedupWindow => admits[j].admitted
                /\ admits[j].at - admits[i].at < DedupWindow => ~admits[j].admitted
    /\ metrics.logsDuplicate = Cardinality({j \in 1..Len(admits) : ~admits[j].admitted})

(***************************************************************************)
(* One agent streaming to the ingestion service: tailer, sampler, batcher, *)
(* stream, receiver, dedup filter and writer.                              *)
(***************************************************************************)
\* the entries of n lines that the tailer read and queued before the first
\* line of this run, all alike; they come before entry 1
EarlierEntries(n) ==
    [i \in 1..n |-> MakeEntry([level |-> INFO, service |-> <<"d", "b">>,
                               message |-> <<"o", "k">>], i - n)]

\* the agent after main has started its goroutines, with the policy of one
\* of the given documents loaded (the built-in policy for a document that
\* yields none) and its batcher holding one of the given buffers, and the
\* ingestion service
AgentStarted(docs, buffers) ==
    /\ ConfigDown
    /\ a_build \in Builds
    /\ \E d \in docs :
          /\ a_config = ParseYaml(d).cfg
          /\ a_version = IF d # "" /\ ParseYaml(d).ok THEN Sha256Hex8(d) ELSE ""
    /\ a_mu = MuFree
    /\ poll = [pc |-> "p_sleep", cur |-> a_version, err |-> TRUE, rv |-> "", rp |-> ""]
    /\ tl = TailIdle
    /\ lines = 0
    /\ a_queue = << >>
    /\ a_buffer \in buffers
    /\ a_snd = SendIdle
    /\ batchID = 0
    /\ st_up = TRUE
    /\ wire = << >>
    /\ losses = 0
    /\ IngestIdle
    /\ TickersStarted
    /\ SidesIdle

\* stream.Recv of the agent's stream returns the next batch the agent sent
WireRecv ==
    /\ Len(wire) > 0
    /\ StreamRecvFrom(AgentStream, Head(wire))
    /\ wire' = Tail(wire)
    /\ UNCHANGED <<cfgVars, timing, sideVars, policyVars, tl, lines, a_queue, a_buffer, a_snd,
                   batchID, st_up, losses>>

\* stream.Recv of the agent's stream returns the error of an aborted stream
WireError ==
    /\ ~st_up
    /\ Len(wire) = 0
    /\ StreamClose(AgentStream)
    /\ UNCHANGED <<cfgVars, timing, sideVars, policyVars, agentVars>>

\* the batcher's buffer is empty or one entry short of a full batch
BatcherInit == AgentStarted({"all1"}, {<< >>, EarlierEntries(AgentBatchSize - 1)})

\* the agent's lines are alike; the receiver takes the batches off the stream
BatcherNext ==
    \/ TailLine(PolicyLines)
    \/ TailerStep
    \/ BatchSenderStep
    \/ StreamAbort
    \/ WireRecv
    \/ WireError
    \/ StreamLogsStep(AgentStream)

SpecBatcher == BatcherInit /\ [][BatcherNext]_vars

\* the lines whose level the policy lists
PipelineLines == {line \in ParsedLines : line.level \in DOMAIN ParseYaml("all1").cfg.base_rates}

PipelineInit == AgentStarted({"all1"}, {<< >>})

\* the agent's lines differ; the writer takes the entries to the store
PipelineNext ==
    \/ TailLine(PipelineLines)
    \/ TailerStep
    \/ BatchSenderStep
    \/ StreamAbort
    \/ WireRecv
    \/ WireError
    \/ StreamLogsStep(AgentStream)
    \/ BatchWriterStep

SpecPipeline == PipelineInit /\ [][PipelineNext]_vars

(***************************************************************************)
(* Properties of the agent's batcher.                                      *)
(***************************************************************************)
\* the batcher takes an entry from the send queue in this step
BatcherTakesEntry == Len(a_queue') < Len(a_queue)

\* sendBatch takes the next batch_id and calls Send in this step
FlushCalled == batchID' = batchID + 1 /\ a_snd.pc = "select" /\ a_snd'.pc = "send"

\* Send returns in this step
SendReturns == a_snd.pc = "send" /\ a_snd'.pc = "select" /\ a_proc'.up

\* the stream has taken the batch with these entries under the batch_id
\* that was taken for it, or Send has failed
SentNow(logs) ==
    /\ batchID' = batchID
    /\ a_buffer' = << >>
    /\ IF st_up'
       THEN wire' = Append(wire, MakeBatch(batchID, logs)) /\ a_failed' = a_failed
       ELSE wire' = wire /\ a_failed' = Append(a_failed, batchID)

\* C14, as stated: the 101st entry that arrives since the last flush
\* triggers the flush of the first 100 and stays in the buffer; the entries
\* before it, the 100th included, are only buffered.
C14_HundredFirstEntryFlushes ==
    [][BatcherTakesEntry =>
          IF Len(a_buffer) = AgentBatchSize
          THEN FlushCalled
          ELSE /\ batchID' = batchID
               /\ a_snd' = a_snd
               /\ a_buffer' = Append(a_buffer, Head(a_queue))]_vars

\* C14, amended: the arrival of the 100th entry since the last flush
\* triggers a flush whose batch is exactly those 100 entries in arrival
\* order and leaves the buffer empty, so that the 101st entry is the first
\* of the next batch; an earlier arrival is only buffered.  The buffer
\* holds 100 entries only while Send has them, and takes no entry then.
C14_HundredthEntryFlushes ==
    /\ [](/\ Len(a_buffer) <= AgentBatchSize
          /\ Len(a_buffer) = AgentBatchSize => a_snd.pc = "send")
    /\ [][/\ BatcherTakesEntry =>
                /\ a_snd.pc = "select"
                /\ a_buffer' = Append(a_buffer, Head(a_queue))
                /\ IF Len(a_buffer) = AgentBatchSize - 1
                   THEN FlushCalled
                   ELSE batchID' = batchID /\ a_snd' = a_snd
          /\ SendReturns => SentNow(a_buffer)]_vars

\* a batch of 100 entries went out on the arrival of the 100th, and the
\* entry that arrived after it is alone in the buffer
C14_Witness ==
    /\ Len(wire) > 0
    /\ Len(wire[1].logs) = AgentBatchSize
    /\ SubSeq(wire[1].logs, 1, AgentBatchSize - 1) = EarlierEntries(AgentBatchSize - 1)
    /\ Len(a_buffer) = 1
    /\ \A i \in 1..AgentBatchSize : wire[1].logs[i] # a_buffer[1]

(***************************************************************************)
(* The agent's batcher against the clock: the tailer, batchSender with its *)
(* 10 s ticker, the service that receives the batches or leaves them       *)
(* unread, and the passing of time.                                        *)
(***************************************************************************)
BatchWindowInit == AgentStarted({"all1"}, {<< >>})

BatchWindowNext ==
    \/ TailLine(PolicyLines)
    \/ TailerStep
    \/ BatchRecv
    \/ BatchTickDue
    \/ StreamSend
    \/ WireRecv
    \/ StreamLogsStep(AgentStream)
    \/ WriterRecv
    \/ WriterTickDue
    \/ InsertBatchStep
    \/ ClockTick(Tickers, MaxClock)

SpecBatchWindow == BatchWindowInit /\ [][BatchWindowNext]_vars

\* batchSender takes a tick of its ticker in this step
BatcherTakesTick == timing'.a_tick # timing.a_tick

\* C15, as stated: an entry in the batcher's buffer, even a single one, is
\* sent as a batch no later than one batch window (10 s) after it was
\* buffered: what the batcher holds and has not sent is never older than
\* one window; a tick that finds the buffer empty sends no batch and takes
\* no batch_id.
C15_SentWithinWindow ==
    /\ [](Len(a_buffer) > 0 => now - timing.a_first <= BatchWindow)
    /\ [][(BatcherTakesTick /\ Len(a_buffer) = 0) =>
             UNCHANGED <<batchID, wire, a_buffer, a_snd>>]_vars

\* C15, amended: an entry in the batcher's buffer, even a single one, is
\* handed to the stream's Send as a batch, under the next batch_id, no
\* later than one batch window (10 s) after it was buffered; Send can
\* wait for the receiver for any length of time, with the entries still
\* in the buffer, and when it returns the batch is on the stream or has
\* failed and the buffer is empty; a tick that finds the buffer empty
\* sends no batch and takes no batch_id.
C15_FlushWithinWindow ==
    /\ [](/\ (Len(a_buffer) > 0) = (timing.a_first # NoTime)
          /\ (a_snd.pc = "select" /\ Len(a_buffer) > 0) => now - timing.a_first <= BatchWindow
          /\ a_snd.pc = "send" =>
                /\ Len(a_buffer) > 0
                /\ a_snd.at - timing.a_first \in 0..BatchWindow
          /\ timing.a_tick - now <= BatchWindow)
    /\ [][/\ BatcherTakesTick =>
                /\ a_snd.pc = "select"
                /\ now >= timing.a_tick
                /\ a_buffer' = a_buffer
                /\ IF Len(a_buffer) > 0
                   THEN FlushCalled
                   ELSE UNCHANGED <<batchID, wire, a_snd>>
          /\ SendReturns => SentNow(a_buffer)]_vars

\* a single entry has gone out alone as batch 1 on the tick that followed it,
\* and the next tick has found the buffer empty and sent nothing
C15_Witness ==
    /\ now > 2 * BatchWindow
    /\ timing.a_tick = 3 * BatchWindow
    /\ batchID = 1
    /\ Len(wire) = 1
    /\ Len(wire[1].logs) = 1
    /\ a_buffer = << >>

(***************************************************************************)
(* Properties of the pipeline.                                             *)
(***************************************************************************)
\* C3: the batch_id values the receiver observes on the agent's stream are
\* 1, 2, 3, ... without a gap, whatever flushes and send outcomes happened.
C3_BatchIdsGapFree ==
    LET seen == handlers[AgentStream].seen
    IN  \A i \in 1..Len(seen) : seen[i] = i

\* the receiver has acknowledged batch 1, flushed by size, and batch 2,
\* flushed by the timer
C3_Witness ==
    LET hd == handlers[AgentStream]
    IN  /\ hd.seen = <<1, 2>>
        /\ Len(hd.acks) = 2
        /\ hd.acks[1].total = AgentBatchSize
        /\ hd.acks[2].total < AgentBatchSize

\* the entries of the agent's stream that its handler has not dealt with yet
HandlerRest(hd) ==
    IF hd.pc \in {"dedup", "timer", "submit"}
    THEN SubSeq(hd.batch.logs, hd.i, Len(hd.batch.logs))
    ELSE << >>

RECURSIVE Flatten(_)
\* the entries of a sequence of batches, in order
Flatten(batches) ==
    IF batches = << >> THEN << >>
    ELSE Head(batches).logs \o Flatten(Tail(batches))

\* the agent's entries from the store back to the send queue
Downstream ==
    store \o InInsert \o w_buffer \o inbox \o HandlerRest(handlers[AgentStream])
          \o Flatten(wire) \o a_buffer \o a_queue

\* C4: the agent's entries that reach the store are in the order in which
\* the agent put them on its send queue, and so are those on the way: from
\* the store back to the send queue the entries are in queueing order.
C4_OrderPreserved ==
    \A i, j \in 1..Len(Downstream) :
        (i < j /\ Downstream[i].agent_id = AgentId /\ Downstream[j].agent_id = AgentId)
           => Downstream[i].seq < Downstream[j].seq

\* two entries that the agent sent in two batches are in the store
C4_Witness ==
    /\ handlers[AgentStream].seen = <<1, 2>>
    /\ Len(store) = 2
    /\ store[1].seq = 1 /\ store[2].seq = 2

(***************************************************************************)
(* The sampler under each policy and each build.                           *)
(***************************************************************************)
\* the policies the agent samples under: the built-in one and four loaded
SamplerDocs == {"", "all1", "info0", "rules", "override"}

SamplerInit == AgentStarted(SamplerDocs, {<< >>})

SamplerNext ==
    \/ TailLine(ParsedLines)
    \/ TailerStep
    \/ BatchSenderStep

SpecSampler == SamplerInit /\ [][SamplerNext]_vars

\* the policy the tailer read lists the level of its line at rate 1.0 and
\* none of its content rules matches the message
ListedAtFullRate ==
    /\ tl.line.level \in DOMAIN tl.cfg.base_rates
    /\ tl.cfg.base_rates[tl.line.level] = 100
    /\ MatchingRules(tl.cfg, tl.line.message) = {}

\* C10: an entry whose level is listed in base_rates with rate 1.0 and whose
\* message matches no content rule is never dropped by the sampler, whatever
\* the draw: it is kept, and once parseLog is through it is on the send queue.
C10_FullRateNeverSampledOut ==
    (tl.pc \in {"send", "idle"} /\ tl.line # NoLine /\ ListedAtFullRate)
       => /\ tl.kept
          /\ tl.pc = "idle" => tl.sent

\* the 0.1-default build has queued an ERROR entry under a policy with
\* content rules, none of which matches
C10_Witness ==
    /\ a_build = "part_004"
    /\ tl.pc = "idle" /\ tl.sent
    /\ tl.line.level = ERROR
    /\ tl.cfg.content_rules # << >>
    /\ ListedAtFullRate

\* parseLog has decided about the tailer's line: the entry was dropped, or it
\* is kept and is being queued or is queued
SamplerDecided == tl.line # NoLine /\ tl.pc \in {"send", "idle"}

\* C11: for an effective rate of k/100 below 1.0 exactly k of the 100 draw
\* values keep the entry, and an entry whose rate is 0.0 is dropped for
\* every draw and never reaches the send queue.
C11_ExactlyKOfHundredDraws ==
    /\ (tl.pc = "draw" /\ tl.rate < 100)
          => Cardinality({n \in Draws : SamplerKeeps(tl.rate, n)}) = tl.rate
    /\ (SamplerDecided /\ tl.rate = 0) => (~tl.kept /\ ~tl.sent)

\* C12: an entry whose level is not a key of base_rates (also under the
\* built-in policy) and whose message matches no content rule gets rate 1.0
\* and is kept unconditionally.
C12_UnlistedLevelKept ==
    (SamplerDecided /\ tl.line.level \notin DOMAIN tl.cfg.base_rates
        /\ MatchingRules(tl.cfg, tl.line.message) = {})
       => (tl.rate = 100 /\ tl.kept)

\* the base rate of the tailer's line under the policy it read, for a level
\* that the policy lists
ListedBaseRate == tl.cfg.base_rates[tl.line.level]

\* C13: the effective rate is the rate of the first content rule, in
\* document order, whose pattern is a substring of the message, whatever the
\* base rate of the level and whatever later rules match; with no matching
\* rule the base rate applies.
C13_FirstMatchingRuleWins ==
    (tl.pc \in {"draw", "send"} \/ SamplerDecided) =>
        LET rules == tl.cfg.content_rules
            message == tl.line.message
        IN  /\ \A i \in 1..Len(rules) :
                  (/\ StringsContains(message, rules[i].pattern)
                   /\ \A j \in 1..(i - 1) : ~StringsContains(message, rules[j].pattern))
                     => tl.rate = rules[i].rate
            /\ ((\A i \in 1..Len(rules) : ~StringsContains(message, rules[i].pattern))
                  /\ tl.line.level \in DOMAIN tl.cfg.base_rates)
                  => tl.rate = ListedBaseRate

\* an ERROR line with base rate 0.0 matches two rules: the first one gives
\* it rate 1.0, the later one, with rate 0.0, has no effect, and it is queued
C13_Witness ==
    /\ tl.pc = "idle" /\ tl.sent
    /\ tl.line # NoLine
    /\ tl.line.level = ERROR
    /\ ERROR \in DOMAIN tl.cfg.base_rates
    /\ ListedBaseRate = 0
    /\ Len(tl.cfg.content_rules) = 2
    /\ Cardinality(MatchingRules(tl.cfg, tl.line.message)) = 2
    /\ tl.cfg.content_rules[1].rate = 100 /\ tl.cfg.content_rules[2].rate = 0
    /\ tl.rate = 100

(***************************************************************************)
(* The receiver against clients that send batches of every kind: plain,    *)
(* empty, compressed, and compressed with a payload that does not decode.  *)
(* Each kind has its batch_id, and a client may send a batch again.        *)
(***************************************************************************)
TupleX == [message |-> <<"x">>, level |-> ERROR, service |-> <<"s">>]

TupleY == [message |-> <<"y">>, level |-> ERROR, service |-> <<"s">>]

\* the tuple that only the batch with the corrupt payload carries
TupleZ == [message |-> <<"z">>, level |-> ERROR, service |-> <<"s">>]

\* the batch_id of the batch whose payload does not decode
CorruptId == 4

\* the batch_id values a client uses
BatchIds == 1..5

\* the batch of stream h with batch_id id
ReceiverBatch(h, id) ==
    [agent_id |-> h, batch_id |-> id,
     logs |-> CASE id = 1 -> <<ClientEntry(h, TupleX)>>
                [] id = 2 -> <<ClientEntry(h, TupleX), ClientEntry(h, TupleY)>>
                [] id = 3 -> << >>
                [] id = CorruptId -> <<ClientEntry(h, TupleZ), ClientEntry(h, TupleZ)>>
                [] OTHER -> <<ClientEntry(h, TupleY)>>,
     compression |-> IF id \in {1, 2, 3} THEN "NONE" ELSE "ZSTD",
     payload |-> CASE id \in {1, 2, 3} -> "none"
                   [] id = CorruptId -> "corrupt"
                   [] OTHER -> "ok"]

\* the batches a client sends: every kind on one stream, all but the empty
\* batch on the other
ReceiverBatchIds(h) == IF h = AgentStream THEN BatchIds ELSE BatchIds \ {3}

\* stream.Recv of stream h returns a batch of the client
ReceiverSend(h) ==
    /\ metrics.batchesReceived < MaxBatches
    /\ \E id \in ReceiverBatchIds(h) : StreamRecvFrom(h, ReceiverBatch(h, id))
    /\ UNCHANGED <<cfgVars, timing, sideVars, policyVars, agentVars>>

ReceiverNext ==
    \/ \E h \in Streams : ReceiverSend(h)
    \/ \E h \in Streams : StreamLogsStep(h)
    \/ \E h \in Streams : ClientGone(h)

SpecReceiver == DedupInit /\ [][ReceiverNext]_vars

(***************************************************************************)
(* The ingestion writer against the clock: one client stream, its          *)
(* handler, batchWriter with its 5 s ticker, and the passing of time.      *)
(***************************************************************************)
\* the decimal digits
Digits == <<"0", "1", "2", "3", "4", "5", "6", "7", "8", "9">>

\* a stream that is closed by the time the model starts
EarlierStream == "client-0"

\* n entries of that stream, no two with the same (message, level, service)
DistinctEntries(n) ==
    [i \in 1..n |->
        [agent_id |-> EarlierStream, seq |-> 0, level |-> INFO,
         service |-> <<Digits[(i \div 10) + 1], Digits[(i % 10) + 1]>>,
         message |-> <<"m">>]]

\* the writer's buffer is empty or one entry short of a full slice
WriterWindowInit ==
    /\ ConfigDown
    /\ AgentIdle
    /\ a_build = "part_004"
    /\ \E earlier \in {<< >>, DistinctEntries(IngestBatchSize - 1)} : IngestStarted(earlier)
    /\ TickersStarted
    /\ SidesIdle

\* the client sends plain batches of one and of two entries, one batch
\* fewer than the receiver's clients
FeedSend ==
    /\ metrics.batchesReceived < MaxBatches - 1
    /\ \E id \in {1, 2} : StreamRecvFrom(OtherStream, ReceiverBatch(OtherStream, id))
    /\ UNCHANGED <<cfgVars, timing, sideVars, policyVars, agentVars>>

WriterWindowNext ==
    \/ FeedSend
    \/ StreamLogsStep(OtherStream)
    \/ WriterRecv
    \/ WriterTickDue
    \/ InsertBatchStep
    \/ ClockTick({"batchWriter"}, MaxClock \div 2)

SpecWriterWindow == WriterWindowInit /\ [][WriterWindowNext]_vars

(***************************************************************************)
(* Properties of the ingestion writer.                                     *)
(***************************************************************************)
\* batchWriter takes an entry from the inbox in this step
WriterTakesEntry == Len(inbox') < Len(inbox)

\* batchWriter takes a tick of its ticker in this step
WriterTakesTick == timing'.w_tick # timing.w_tick

\* batchWriter calls insertBatch in this step: the slice starts anew
WriterFlushes == Len(w_buffer) > 0 /\ w_buffer' = << >>

\* insertBatch is called with this slice
Inserting(logs) == w_ins' = InsertCalled(logs) /\ UNCHANGED <<store, metrics>>

\* the slice after this step, and whether the step flushes, are as the code
\* has them for an entry and for a tick
WriterStepsAsCoded ==
    /\ WriterTakesEntry =>
          IF Len(w_buffer) = IngestBatchSize - 1
          THEN WriterFlushes /\ Inserting(Append(w_buffer, Head(inbox)))
          ELSE w_buffer' = Append(w_buffer, Head(inbox)) /\ UNCHANGED <<w_ins, store, metrics>>
    /\ WriterTakesTick =>
          IF Len(w_buffer) > 0
          THEN WriterFlushes /\ Inserting(w_buffer)
          ELSE UNCHANGED <<w_buffer, w_ins, store, metrics>>
    /\ WriterFlushes => (WriterTakesEntry \/ WriterTakesTick)

\* C16, as stated: the writer flushes exactly when the slice reaches 100
\* entries or when 5 s have passed since the first entry of the slice was
\* appended; an empty slice is not flushed and a flush leaves the slice
\* empty.
C16_TimeoutFromFirstEntry ==
    /\ [](Len(w_buffer) > 0 => now - timing.w_first <= BatchTimeout)
    /\ [][/\ WriterStepsAsCoded
          /\ WriterFlushes =>
                \/ WriterTakesEntry /\ Len(w_buffer) = IngestBatchSize - 1
                \/ now - timing.w_first = BatchTimeout]_vars

\* C16, amended: the writer flushes exactly when the slice reaches 100
\* entries or when it takes a tick of its 5 s ticker, which runs on
\* whatever the slice does, with entries in the slice; that is never later
\* than 5 s after the first entry of the slice was appended and can be
\* sooner; a tick that comes during a bulk insert is taken after it; an
\* empty slice is not flushed and a flush leaves the slice empty.
C16_FlushOnSizeOrTick ==
    /\ [](/\ Len(w_buffer) < IngestBatchSize
          /\ (Len(w_buffer) > 0) = (timing.w_first # NoTime)
          /\ Len(w_buffer) > 0 => now - timing.w_first <= BatchTimeout
          /\ timing.w_tick - now <= BatchTimeout)
    /\ [][/\ WriterStepsAsCoded
          /\ WriterFlushes =>
                \/ WriterTakesEntry /\ Len(w_buffer) = IngestBatchSize - 1
                \/ WriterTakesTick
                     /\ now >= timing.w_tick
                     /\ now - timing.w_first \in 0..BatchTimeout]_vars

\* the 100th entry has flushed a slice, and the entry appended 3 s after
\* the first tick has been flushed by the second tick, 2 s later
C16_Witness ==
    /\ now = 2 * BatchTimeout
    /\ timing.w_tick = 3 * BatchTimeout
    /\ Len(store) = IngestBatchSize + 1
    /\ \E i \in 1..Len(admits) :
          /\ admits[i].admitted
          /\ admits[i].at = BatchTimeout + 3
          /\ store[Len(store)] = Row(admits[i].entry)
    /\ w_buffer = << >>

(***************************************************************************)
(* Properties of the receiver.                                             *)
(***************************************************************************)
\* the k-th batch that stream h received
SeenBatch(h, k) == ReceiverBatch(h, handlers[h].seen[k])

\* the k-th batch that stream h received is the one whose payload does not
\* decode
SeenCorrupt(h, k) == handlers[h].seen[k] = CorruptId

\* the handler of the stream is between stream.Recv and the SUCCESS ack
InBatch(hd) == hd.pc \in {"dedup", "timer", "submit", "ack"}

RECURSIVE LogsUpTo(_, _)
\* how many entries the first k batches of stream h carried
LogsUpTo(h, k) ==
    IF k = 0 THEN 0 ELSE LogsUpTo(h, k - 1) + Len(SeenBatch(h, k).logs)

RECURSIVE FailedUpTo(_, _)
\* how many of them came in batches whose payload does not decode
FailedUpTo(h, k) ==
    IF k = 0 THEN 0
    ELSE FailedUpTo(h, k - 1) + IF SeenCorrupt(h, k) THEN Len(SeenBatch(h, k).logs) ELSE 0

\* the dedup decisions taken for the entries of stream h, in order
DecisionsOf(h) == SelectSeq(admits, LAMBDA a : a.stream = h)

\* how many entries of stream h the sequence q holds
CountFrom(q, h) == Cardinality({i \in 1..Len(q) : q[i].agent_id = h})

\* the entries of q that carry the tuple of the corrupt batch
CorruptEntries(q) == {i \in 1..Len(q) : TupleOf(q[i]) = TupleZ}

\* stream h receives a batch in this step
Receives(h) == Len(handlers'[h].seen) > Len(handlers[h].seen)

\* C17: a ZSTD batch whose payload does not decode is answered with exactly
\* one ack, a RETRY with its batch_id; none of its entries reaches the dedup
\* cache or the inbox, which the step leaves as they are; the batch and its
\* entries are counted in batches_received and logs_received; and the
\* handler is back in stream.Recv for the next batch of the stream.
C17_CorruptBatchRetried ==
    /\ [](/\ \A h \in Streams :
               LET hd == handlers[h]
               IN  /\ Len(hd.acks) <= Len(hd.seen)
                   /\ \A k \in 1..Len(hd.seen) :
                         SeenCorrupt(h, k) =>
                            /\ k <= Len(hd.acks)
                            /\ hd.acks[k].batch_id = CorruptId
                            /\ hd.acks[k].status = "RETRY"
                   /\ InBatch(hd) => ~SeenCorrupt(h, Len(hd.seen))
          /\ DedupKey(ClientEntry(AgentStream, TupleZ)) \notin dedupCache
          /\ CorruptEntries(inbox) = {}
          /\ \A i \in 1..Len(admits) : TupleOf(admits[i].entry) # TupleZ
          /\ metrics.batchesReceived =
                Len(handlers[AgentStream].seen) + Len(handlers[OtherStream].seen)
          /\ metrics.logsReceived =
                LogsUpTo(AgentStream, Len(handlers[AgentStream].seen))
                   + LogsUpTo(OtherStream, Len(handlers[OtherStream].seen)))
    /\ [][\A h \in Streams :
             (Receives(h) /\ handlers'[h].seen[Len(handlers'[h].seen)] = CorruptId)
                => /\ handlers'[h].pc = "recv"
                   /\ Len(handlers'[h].acks) = Len(handlers[h].acks) + 1
                   /\ UNCHANGED <<dedupCache, timers, inbox, admits>>
                   /\ metrics'.logsReceived =
                         metrics.logsReceived + Len(ReceiverBatch(h, CorruptId).logs)]_vars

\* a stream has got RETRY for the corrupt batch and then SUCCESS for the
\* batch it received next
C17_Witness ==
    \E h \in Streams :
        LET hd == handlers[h]
        IN  /\ hd.seen = <<CorruptId, 1>>
            /\ Len(hd.acks) = 2
            /\ hd.acks[1].status = "RETRY"
            /\ hd.acks[2] = [batch_id |-> 1, status |-> "SUCCESS", processed |-> 1, total |-> 1]
            /\ metrics.logsReceived = 3
            /\ Len(inbox) = 1

\* C18: the ack of a batch that does not fail decompression is SUCCESS with
\* "Processed P/N logs", N the number of the batch's entries and P the
\* number of them that the dedup filter admitted, and no other ack is
\* SUCCESS; the inbox gets the admitted entries and no others, so a batch of
\* duplicates gets P = 0 and adds nothing, and an empty batch gets 0/0.
C18_SuccessAckCountsAdmitted ==
    \A h \in Streams :
        LET hd == handlers[h]
            mine == DecisionsOf(h)
            admitted == {i \in 1..Len(mine) : mine[i].admitted}
        IN  /\ \A k \in 1..Len(hd.acks) :
                  LET b == SeenBatch(h, k)
                      from == LogsUpTo(h, k - 1) - FailedUpTo(h, k - 1)
                      P == Cardinality(admitted \cap ((from + 1)..(from + Len(b.logs))))
                  IN  IF SeenCorrupt(h, k)
                      THEN hd.acks[k].status # "SUCCESS"
                      ELSE hd.acks[k] = [batch_id |-> b.batch_id, status |-> "SUCCESS",
                                         processed |-> P, total |-> Len(b.logs)]
            /\ CountFrom(inbox, h) =
                  Cardinality(admitted) - IF hd.pc \in {"timer", "submit"} THEN 1 ELSE 0

\* a stream has got "Processed 2/2" for a batch of two new entries,
\* "Processed 0/1" for a batch whose entry was in the cache by then, and
\* "Processed 0/0" for an empty batch
C18_Witness ==
    LET hd == handlers[AgentStream]
    IN  /\ hd.seen = <<2, 1, 3>>
        /\ Len(hd.acks) = 3
        /\ hd.acks[1].processed = 2 /\ hd.acks[1].total = 2
        /\ hd.acks[2].processed = 0 /\ hd.acks[2].total = 1
        /\ hd.acks[3].processed = 0 /\ hd.acks[3].total = 0
        /\ Len(inbox) = 2

\* C19: on each stream every received batch gets exactly one ack, which
\* carries its batch_id, and the acks are in the order in which the batches
\* were received: the acks' batch_ids are the received ones in order, all of
\* them but the last while the handler is still working on that one.
C19_OneAckPerBatchInOrder ==
    \A h \in Streams :
        LET hd == handlers[h]
        IN  /\ Len(hd.acks) = Len(hd.seen) - IF InBatch(hd) THEN 1 ELSE 0
            /\ \A k \in 1..Len(hd.acks) : hd.acks[k].batch_id = hd.seen[k]

\* one stream has received three different batches and acknowledged them in
\* that order, the corrupt one in the middle
C19_Witness ==
    LET hd == handlers[AgentStream]
    IN  /\ hd.seen = <<2, CorruptId, 1>>
        /\ hd.pc = "recv"
        /\ [k \in 1..3 |-> hd.acks[k].batch_id] = hd.seen
        /\ [k \in 1..3 |-> hd.acks[k].status] = <<"SUCCESS", "RETRY", "SUCCESS">>

\* the entries received in batches whose payload did not decode
FailedEntries ==
    FailedUpTo(AgentStream, Len(handlers[AgentStream].seen))
       + FailedUpTo(OtherStream, Len(handlers[OtherStream].seen))

\* the entries of the batch a handler is working on that are counted
\* neither as processed nor as duplicate yet
Undecided(hd) ==
    IF hd.pc \in {"dedup", "timer", "submit"} THEN Len(hd.batch.logs) - hd.i + 1 ELSE 0

\* C20, as stated: in every state logs_received is logs_processed plus
\* logs_duplicate plus the entries of the batches that failed decompression.
C20_CountersAlwaysBalance ==
    metrics.logsReceived = metrics.logsProcessed + metrics.logsDuplicate + FailedEntries

\* C20, amended: logs_received is logs_processed plus logs_duplicate plus
\* the entries of the batches that failed decompression plus the entries,
\* not yet counted either way, of the batches the handlers are working on;
\* the three-term equality holds whenever no handler is inside a batch.
C20_CountersBalanceBetweenBatches ==
    /\ metrics.logsReceived =
          metrics.logsProcessed + metrics.logsDuplicate + FailedEntries
             + Undecided(handlers[AgentStream]) + Undecided(handlers[OtherStream])
    /\ (\A h \in Streams : ~InBatch(handlers[h])) => C20_CountersAlwaysBalance

\* both streams have finished their batches: two entries processed, one
\* duplicate, two in a batch that failed decompression
C20_Witness ==
    /\ \A h \in Streams : handlers[h].pc = "recv" /\ Len(handlers[h].seen) > 0
    /\ metrics.logsProcessed = 2
    /\ metrics.logsDuplicate = 1
    /\ FailedEntries = 2
    /\ metrics.logsReceived = 5

(***************************************************************************)
(* The byte counters of the ingestion service.                             *)
(***************************************************************************)
\* some handler has received a batch that is tagged ZSTD
SeenCompressed ==
    \E h \in Streams : \E i \in 1..Len(handlers[h].seen) :
        Compressed(ReceiverBatch(h, handlers[h].seen[i]))

\* C21: once a ZSTD batch has been received, bytes_decompressed is at least
\* bytes_received, whatever batches have been received.
C21_DecompressedAtLeastReceived ==
    SeenCompressed => metrics.bytesDecompressed >= metrics.bytesReceived

(***************************************************************************)
(* Properties of insertBatch.                                              *)
(***************************************************************************)
\* the step leaves the named counters of the service as they are
CountersKept(names) == \A f \in names : metrics'[f] = metrics[f]

\* insertBatch takes a step
InsertMoves == w_ins' # w_ins /\ w_ins.pc # "select"

\* C22: every flush that fails adds one to inserts_failed, leaves
\* logs_inserted and last_insert_ts as they are and drops the slice; every
\* flush that succeeds adds the length of the slice to logs_inserted and
\* records the time in last_insert_ts.
C22_EveryFailedFlushCounted ==
    [][InsertMoves =>
          CASE w_ins.pc = "insert" ->
                   /\ CountersKept({"insertsFailed", "logsInserted", "lastInsertTime"})
                   /\ w_ins'.pc = IF store' = store THEN "failed" ELSE "count"
            [] w_ins.pc = "failed" ->
                   /\ metrics'.insertsFailed = metrics.insertsFailed + 1
                   /\ CountersKept({"logsInserted", "lastInsertTime"})
                   /\ w_ins' = InsertIdle /\ store' = store
            [] w_ins.pc = "count" ->
                   /\ metrics'.logsInserted = metrics.logsInserted + Len(w_ins.logs)
                   /\ CountersKept({"insertsFailed"})
            [] OTHER ->
                   /\ metrics'.lastInsertTime = UnixNow
                   /\ CountersKept({"insertsFailed", "logsInserted"})]_vars

\* C23: a flush is all or nothing: the table grows only when insertBatch
\* has sent its batch, then by the rows of the whole slice, which happens
\* only after every Append and the Send succeeded; a flush that ends with
\* an error, and so every flush that is counted as failed, leaves the table
\* as it is; logs_inserted counts the rows of the table.
C23_FlushAllOrNothing ==
    /\ [](Len(store) = metrics.logsInserted
                          + IF w_ins.pc = "count" THEN Len(w_ins.logs) ELSE 0)
    /\ [][/\ store' # store =>
                /\ w_ins.pc = "insert"
                /\ store' = store \o Rows(w_ins.logs)
                /\ w_ins'.pc = "count"
          /\ (InsertMoves /\ w_ins.pc = "insert" /\ w_ins'.pc # "count") => store' = store
          /\ metrics'.insertsFailed # metrics.insertsFailed =>
                /\ w_ins.pc = "failed"
                /\ store' = store
                /\ CountersKept({"logsInserted", "lastInsertTime"})]_vars

\* C23 witness: one flush has failed and one has succeeded, and the table
\* holds the rows of the one that succeeded
C23_Witness ==
    /\ metrics.insertsFailed > 0
    /\ Len(store) > 0
    /\ Len(store) = metrics.logsInserted

(***************************************************************************)
(* The health endpoint: a client feeds the service, the writer flushes     *)
(* when it has something to flush, and minutes pass.                       *)
(***************************************************************************)
\* the minutes pass when the service has nothing left to do: the handlers
\* wait in stream.Recv and the writer, whose ticker comes every five
\* seconds, has flushed what it held
HealthTick ==
    /\ Quiet
    /\ w_buffer = << >>
    /\ TickTo(MaxUptime)

\* the client sends the plain batch of one entry, again and again
HealthFeed ==
    /\ metrics.batchesReceived < MaxBatches
    /\ StreamRecvFrom(OtherStream, ReceiverBatch(OtherStream, 1))
    /\ UNCHANGED <<cfgVars, timing, sideVars, policyVars, agentVars>>

HealthNext ==
    \/ HealthFeed
    \/ StreamLogsStep(OtherStream)
    \/ TimerFire
    \/ WriterRecv
    \/ WriterTick
    \/ InsertBatchStep
    \/ HealthTick
    \/ HealthHandler

SpecHealth == DedupInit /\ [][HealthNext]_vars

\* batch.Send has returned nil and insertBatch has not stored the time yet
Unrecorded == w_ins.pc \in {"count", "stamp"}

\* a bulk insert has succeeded less than two minutes ago: one that is
\* recorded in last_insert_ts, or one that insertBatch is about to record
InsertedWithinWindow ==
    \/ Unrecorded
    \/ store # << >> /\ UnixNow - metrics.lastInsertTime < HealthWindow

\* C24, as stated: the health endpoint answers "healthy" with 200 exactly
\* when a bulk insert has succeeded within the last two minutes, and
\* "unhealthy" with 503 otherwise.
C24_HealthyIffInsertedWithinWindow ==
    LET r == HealthResponse(metrics.lastInsertTime, UnixNow)
    IN  /\ r.status = "healthy" <=> InsertedWithinWindow
        /\ r.status = "healthy" => r.code = 200
        /\ r.status # "healthy" => r.status = "unhealthy" /\ r.code = 503

\* C24, amended: the health endpoint answers "healthy" with 200 exactly
\* when last_insert_ts is less than two minutes old, and "unhealthy" with
\* 503 otherwise; last_insert_ts is 0 until the first bulk insert has
\* succeeded, is set to the present time by insertBatch after a Send that
\* succeeded and by nothing else, so that a failed flush does not change
\* it; between the Send and the store of the time the endpoint still
\* answers from the time of the insert before.
C24_HealthyIffRecordedWithinWindow ==
    /\ [](LET r == HealthResponse(metrics.lastInsertTime, UnixNow)
          IN  /\ r.status = "healthy" <=>
                    /\ metrics.lastInsertTime # 0
                    /\ UnixNow - metrics.lastInsertTime < HealthWindow
              /\ r.status = "healthy" => r.code = 200
              /\ r.status # "healthy" => r.status = "unhealthy" /\ r.code = 503
              /\ ~Unrecorded => ((store = << >>) <=> (metrics.lastInsertTime = 0))
              /\ store = << >> => metrics.lastInsertTime = 0)
    /\ [][/\ health' # health =>
                health' = HealthResponse(metrics.lastInsertTime, UnixNow)
          /\ metrics'.lastInsertTime # metrics.lastInsertTime =>
                /\ w_ins.pc = "stamp"
                /\ metrics'.lastInsertTime = UnixNow
                /\ store # << >>
          /\ (w_ins.pc = "stamp" /\ InsertMoves) => metrics'.lastInsertTime = UnixNow]_vars

\* C24 witness: the service has answered "unhealthy" after an insert that
\* succeeded two minutes ago or more and a flush that failed since
C24_Witness ==
    /\ health = [status |-> "unhealthy", code |-> 503]
    /\ store # << >>
    /\ metrics.insertsFailed > 0
    /\ UnixNow - metrics.lastInsertTime >= HealthWindow

(***************************************************************************)
(* The circuit breaker under concurrent callers.                           *)
(***************************************************************************)
BreakerNext ==
    \/ \E c \in Callers : ExecuteBefore(c)
    \/ \E c \in Callers : ExecuteAfter(c, TRUE)
    \/ \E c \in Callers : ExecuteAfter(c, FALSE)
    \/ BreakerTick

SpecBreaker == DedupInit /\ [][BreakerNext]_vars

\* the step is a call of Execute arriving at beforeRequest
ExecuteArrives == cbh'.calls = cbh.calls + 1

\* the step lets a call through to fn
LetThrough == \E c \in Callers : execs[c].pc = "idle" /\ execs'[c].pc = "fn"

\* the step is the return of a call that beforeRequest let through in the
\* current HALF_OPEN period, with failure or not
ProbeReturns(failed) ==
    /\ cb.state = "HALF_OPEN"
    /\ cbh'.last = IF failed THEN "failed" ELSE "ok"
    /\ \E c \in Callers : /\ execs[c].pc = "fn" /\ execs'[c].pc = "idle"
                           /\ execs[c].period = cbh.period

\* C25: a new breaker is CLOSED; while it is CLOSED its failure count is
\* the number of calls that failed since the last call that succeeded; it
\* moves to OPEN exactly when the count reaches maxFailures.
C25_ClosedCountsConsecutiveFailures ==
    /\ cb.state = "CLOSED" /\ cb.failures = 0
    /\ [](cb.state = "CLOSED" =>
              /\ cb.failures = cbh.streak
              /\ cb.failures < MaxFailures)
    /\ [][cb.state = "CLOSED" =>
              /\ cb'.state \in {"CLOSED", "OPEN"}
              /\ cb'.state = "OPEN" <=> cb'.failures = MaxFailures
              /\ cb'.state = "OPEN" => cbh'.streak = MaxFailures]_vars

\* C25 witness: the breaker has just opened, after a call that succeeded
\* had reset the count and maxFailures calls in a row failed
C25_Witness ==
    /\ cb.state = "OPEN"
    /\ cbh.period = 0
    /\ cbh.last = "failed"
    /\ cb.failures = MaxFailures
    /\ cbh.calls > MaxFailures
    /\ \A c \in Callers : execs[c].pc = "idle"

\* C26: while the breaker is OPEN and no more than the reset timeout has
\* passed since the last recorded failure, Execute returns an error without
\* calling fn and the breaker stays OPEN; the first Execute after that moves
\* it to HALF_OPEN and is let through; no step takes it from OPEN to CLOSED.
C26_OpenRejectsUntilTimeout ==
    [][cb.state = "OPEN" =>
          /\ cb'.state # "CLOSED"
          /\ cb'.state # "OPEN" => ExecuteArrives
          /\ ExecuteArrives =>
                 IF now - cb.lastFailTime <= ResetTimeout
                 THEN /\ cbh'.last = "rejected"
                      /\ execs' = execs
                      /\ cb' = cb
                 ELSE /\ cbh'.last = "admitted"
                      /\ LetThrough
                      /\ cb'.state = "HALF_OPEN"]_vars

\* C26 witness: a call has been turned away by the OPEN breaker and a later
\* one, after the timeout, has just moved it to HALF_OPEN and runs
C26_Witness ==
    /\ cb.state = "HALF_OPEN"
    /\ cbh.rejected > 0
    /\ cbh.last = "admitted"
    /\ cbh.probes = 1
    /\ now - cb.lastFailTime > ResetTimeout

\* C27: in one HALF_OPEN period at most halfOpenMax calls are let through,
\* the call that moved the breaker from OPEN to HALF_OPEN included.
C27_AtMostHalfOpenMaxProbes ==
    cb.state = "HALF_OPEN" => cbh.probes <= HalfOpenMax

\* C28: in HALF_OPEN a probe that fails moves the breaker back to OPEN; the
\* breaker returns to CLOSED, with failures 0, only after halfOpenMax probes
\* of the period succeeded, and never while another probe of the period is
\* still running.
C28_ClosesOnlyAfterRunOfSuccesses ==
    [][/\ ProbeReturns(TRUE) => cb'.state = "OPEN"
       /\ cb.state = "HALF_OPEN" /\ cb'.state = "CLOSED" =>
             /\ cb'.failures = 0
             /\ cbh'.wins >= HalfOpenMax
             /\ \A c \in Callers :
                    execs'[c].pc = "fn" => execs'[c].period # cbh.period]_vars

(***************************************************************************)
(* RetryWithBackoff: fn returns and the timer of a backoff fires.          *)
(***************************************************************************)
RetryStep ==
    \/ \E err \in FnResults : RetryCall(err)
    \/ RetryWait

RetryNext ==
    \/ \E maxRetries \in MaxRetriesInputs : RetryStart(maxRetries)
    \/ RetryStep
    \/ \E err \in {CtxCanceled, CtxDeadlineExceeded} : RetryCancel(err)

SpecRetry == DedupInit /\ [][RetryNext]_vars /\ WF_vars(RetryStep)

\* the step is a call of fn that returns
FnReturns == retry'.calls = retry.calls + 1

\* the codes the claims name as terminal and as retried
TerminalCodes == {"InvalidArgument", "NotFound", "PermissionDenied", "Canceled"}

RetriedCodes == {"Unavailable", "ResourceExhausted", "Aborted", "DeadlineExceeded"}

\* C29: RetryWithBackoff terminates: fn is called at most MaxRetries + 1
\* times; nil is returned right after the first call that succeeds; when
\* MaxRetries + 1 calls failed the error returned wraps the last one; when
\* the context is cancelled during a backoff wait its error is returned and
\* fn is not called again.
C29_RetryTerminates ==
    /\ [](/\ retry.calls <= retry.maxRetries + 1
          /\ retry.result.how = "nil" => retry.lastErr = NoError
          /\ retry.result.how = "wrapped" =>
                 /\ retry.calls = retry.maxRetries + 1
                 /\ retry.result.err = retry.lastErr
                 /\ retry.lastErr # NoError
          /\ retry.result.how = "ctx" =>
                 /\ retry.result.err = retry.ctxErr
                 /\ retry.ctxErr # NoError)
    /\ [][/\ retry.pc = "done" => retry' = retry
          /\ FnReturns /\ retry'.lastErr = NoError =>
                 retry'.pc = "done" /\ retry'.result.how = "nil"
          /\ retry.pc = "wait" /\ retry.ctxErr # NoError =>
                 /\ retry'.pc = "done"
                 /\ retry'.result = [how |-> "ctx", err |-> retry.ctxErr]
                 /\ retry'.calls = retry.calls]_vars
    /\ (retry.pc # "idle" ~> retry.pc = "done")

\* C29 witness: with the default MaxRetries every call failed and the
\* function has returned the error that wraps the last one
C29_Witness ==
    /\ retry.pc = "done"
    /\ retry.maxRetries = DefaultMaxRetries
    /\ retry.calls = DefaultMaxRetries + 1
    /\ retry.result.how = "wrapped"

\* C30: a gRPC error with a terminal code is returned as it is at once,
\* with no wait and no further call of fn; one with the code Unavailable,
\* ResourceExhausted, Aborted or DeadlineExceeded is followed by a backoff
\* wait and, unless the context ends, another call, while attempts remain.
C30_TerminalCodesNotRetried ==
    [][/\ FnReturns /\ retry'.lastErr.kind = "status" =>
             /\ retry'.lastErr.code \in TerminalCodes =>
                    /\ retry'.pc = "done"
                    /\ retry'.result = [how |-> "err", err |-> retry'.lastErr]
             /\ retry'.lastErr.code \in RetriedCodes =>
                    IF retry.attempt < retry.maxRetries
                    THEN retry'.pc = "wait" /\ retry'.attempt = retry.attempt + 1
                    ELSE retry'.pc = "done" /\ retry'.result.how = "wrapped"
       /\ retry.pc = "wait" /\ retry'.pc # "wait" =>
             IF retry.ctxErr = NoError THEN retry'.pc = "call" ELSE retry'.pc = "done"
       /\ retry.pc = "done" => retry'.calls = retry.calls]_vars

\* C30 witness: Unavailable was retried and the NotFound of a later call
\* has been returned as it is
C30_Witness ==
    /\ retry.pc = "done"
    /\ retry.calls > 1
    /\ retry.calls < retry.maxRetries + 1
    /\ retry.result = [how |-> "err", err |-> StatusError("NotFound")]

(***************************************************************************)
(* The agent after a stream error.                                         *)
(***************************************************************************)
\* C31: once a Send on the stream has returned an error, the agent hands no
\* further batch to Send on that stream, and the batch whose Send failed is
\* not sent again on it.
C31_NoSendAfterSendError ==
    /\ Len(a_failed) <= 1
    /\ \A i \in 1..Len(a_failed), j \in 1..Len(wire) : wire[j].batch_id # a_failed[i]

\* the agent holds the entry: batchSender's buffer is the only place where
\* the agent keeps entries that left the send queue
AgentHolds(entry) == \E i \in 1..Len(a_buffer) : a_buffer[i] = entry

\* C32: a batch that has been sent and has neither been acknowledged nor
\* met a stream error is still held by the agent: while the stream is up,
\* the entries of every batch that the service has not yet received, and so
\* has not acknowledged, are in the agent's hands.
C32_UnackedBatchHeld ==
    st_up => \A j \in 1..Len(wire) : \A k \in 1..Len(wire[j].logs) :
                 AgentHolds(wire[j].logs[k])

(***************************************************************************)
(* The agent is asked to shut down while it tails and sends.               *)
(***************************************************************************)
ShutdownNext ==
    \/ /\ a_proc.up
       /\ \/ TailLine(PolicyLines)
          \/ TailerStep
          \/ BatchSenderStep
    \/ AgentSignal
    \/ StreamAbort
    \/ WireRecv
    \/ WireError
    \/ StreamLogsStep(AgentStream)

SpecShutdown == BatcherInit /\ [][ShutdownNext]_vars

\* C33: a shutdown request makes the agent send what the batcher holds as a
\* final batch before it exits: when the process has ended, no entry that
\* the batcher had accepted has been lost with it.
C33_ShutdownDrainsBuffer == ~a_proc.up => a_proc.lost = 0

(***************************************************************************)
(* tailFile and the processes that write the file.                         *)
(***************************************************************************)
TailFileInit == AgentStarted({"all1"}, {<< >>})

TailFileNext ==
    \/ \E chunk \in WriteChunks : FileWrite(chunk)
    \/ TailOpen
    \/ TailSeek
    \/ TailScanRead
    \/ TailScanLine
    \/ TailWatch
    \/ TailTake
    \/ TailRead
    \/ TailHand

SpecTailFile == TailFileInit /\ [][TailFileNext]_vars

\* the lines of the file that are complete and not empty, in file order
WholeLines(data) ==
    LET pieces == StringsSplit(data)
    IN  SelectSeq(SubSeq(pieces, 1, Len(pieces) - 1), LAMBDA piece : piece # << >>)

\* C34: every line of the file that is not empty, there at the start or
\* appended later, is handed to parseLog once, whole and in file order:
\* when tailFile has taken every write notification, what it has handed to
\* parseLog is the sequence of the complete lines of the file.
C34_EveryLineOnceInOrder ==
    tf.pc = "watch" /\ tf.events = 0 => tf.out = WholeLines(tf.data)

(***************************************************************************)
(* parseLog on raw lines of the three formats.                             *)
(***************************************************************************)
RawLines ==
    {RawLine("app", ok, token, 0, <<"o", "k">>) :
        ok \in BOOLEAN, token \in {ERROR, WARN, INFO, DEBUG, <<"F", "A", "T", "A", "L">>}}
    \cup {RawLine("tomcat", ok, token, 0, <<"o", "k">>) :
        ok \in BOOLEAN, token \in {<<"S", "E", "V", "E", "R", "E">>,
                                    <<"W", "A", "R", "N", "I", "N", "G">>, INFO,
                                    <<"F", "I", "N", "E">>}}
    \cup {RawLine("nginx", ok, << >>, status, <<"o", "k">>) :
        ok \in BOOLEAN, status \in {200, 404, 503}}
    \cup {RawLine("none", FALSE, << >>, 0, << >>)}

ParseInit == AgentStarted({"all1"}, {<< >>})

ParseNext ==
    \/ \E raw \in RawLines : TailRaw(raw)
    \/ TailRLock
    \/ TailRate
    \/ TailDraw
    \/ TailSend

SpecParse == ParseInit /\ [][ParseNext]_vars

\* the five levels the claim names
FiveLevels == {ERROR, WARN, INFO, DEBUG, <<"U", "N", "K", "N", "O", "W", "N">>}

\* C35: every entry parseLog produces, for any line of the three formats,
\* has one of the levels ERROR, WARN, INFO, DEBUG, UNKNOWN.
C35_LevelIsOneOfFive ==
    \A i \in 1..Len(a_queue) : a_queue[i].level \in FiveLevels

(***************************************************************************)
(* Hot reload while the queue is full.                                     *)
(***************************************************************************)
\* the agent has started with the default policy, the queue is one entry
\* short of full and nothing takes entries out of it
BackpressureInit ==
    /\ cfgFile = [readable |-> TRUE, doc |-> "info0"]
    /\ edits = 0
    /\ s_payload = ""
    /\ s_version = ""
    /\ s_mu = MuFree
    /\ ld = [pc |-> "read", ok |-> FALSE, payload |-> "", version |-> ""]
    /\ serving = FALSE
    /\ loaded = <<"", "">>
    /\ calls = [c \in {AgentId} |-> IdleCall]
    /\ a_build = "part_004"
    /\ a_config = DefaultConfig
    /\ a_version = ""
    /\ a_mu = MuFree
    /\ poll = [pc |-> "p_sleep", cur |-> "", err |-> TRUE, rv |-> "", rp |-> ""]
    /\ tl = TailIdle
    /\ lines = 0
    /\ a_queue = EarlierEntries(AgentLogChanCap - 1)
    /\ a_buffer = << >>
    /\ a_snd = SendIdle
    /\ batchID = 0
    /\ st_up = TRUE
    /\ wire = << >>
    /\ losses = 0
    /\ IngestIdle
    /\ TickersStarted
    /\ SidesIdle

BackpressureNext ==
    \/ LoadConfigStep
    \/ AgentCallStep
    \/ ConfigPollerStep
    \/ TailLine(PolicyLines)
    \/ TailerStep

\* The poller's own steps go on, the lookup between RLock and RUnlock
\* does not block, and sync.RWMutex hands the lock to a waiting writer
\* once the readers have left.  Nothing is assumed of the send to the
\* queue, which blocks for as long as the queue is full.
BackpressureFairness ==
    /\ WF_vars(PollLock \/ PollAcquire \/ PollSetConfig \/ PollSetVersion \/ PollUnlock)
    /\ WF_vars(TailRate)

SpecBackpressure == BackpressureInit /\ [][BackpressureNext]_vars /\ BackpressureFairness

\* the read locks held are those of the poller reading its version and of
\* the tailer looking up its rate
ReadLocksAccounted ==
    a_mu.readers = (IF poll.pc = "p_read" THEN 1 ELSE 0) + (IF tl.pc = "rate" THEN 1 ELSE 0)

\* C36: the tailer holds no policy lock during the random draw or while it
\* is blocked at the full queue, so a policy swap the poller has begun
\* always completes, whatever the state of the queue and of the tailer.
C36_SwapCompletesUnderBackpressure ==
    /\ [](tl.pc \in {"draw", "send"} => ReadLocksAccounted)
    /\ (poll.pc \in {"p_lock", "p_acquire"} ~> poll.pc = "p_sleep")

\* the queue is full, the tailer is blocked at its send, and the poller
\* holds the write lock and has swapped the policy
C36_Witness ==
    /\ Len(a_queue) = AgentLogChanCap
    /\ tl.pc = "send"
    /\ poll.pc = "p_unlock"
    /\ a_mu.writer
    /\ a_version # ""

(***************************************************************************)
(* The dedup key.                                                          *)
(***************************************************************************)
\* C37: the dedup key separates distinct (message, level, service) tuples:
\* two entries the filter has seen that differ in one of the three get
\* different keys, so that an entry is dropped as a duplicate only when an
\* entry of its own tuple was admitted before it.
C37_KeySeparatesTuples ==
    \A j \in 1..Len(admits) :
        /\ \A i \in 1..(j - 1) :
              TupleOf(admits[i].entry) # TupleOf(admits[j].entry)
                  => DedupKey(admits[i].entry) # DedupKey(admits[j].entry)
        /\ ~admits[j].admitted =>
              \E i \in 1..(j - 1) : /\ admits[i].admitted
                                     /\ TupleOf(admits[i].entry) = TupleOf(admits[j].entry)

(***************************************************************************)
(* The texts isRetryable takes for transient.                              *)
(***************************************************************************)
\* the three patterns the claim names: "connection refused", "connection
\* reset", "timeout"
NamedPatterns == {TransientPatterns[1], TransientPatterns[2], TransientPatterns[4]}

\* substr occurs in str, at the start, at the end or in between
Occurs(str, substr) ==
    \E i \in 1..(Len(str) - Len(substr) + 1) : SubSeq(str, i, i + Len(substr) - 1) = substr

\* C38: an error that is no gRPC status and whose text holds "connection
\* refused", "connection reset" or "timeout" anywhere is taken for
\* transient: contains(s, substr) is true exactly when substr occurs in s,
\* and RetryWithBackoff does not return such an error as not retryable.
C38_TransientTextRetried ==
    /\ retry.lastErr.kind = "plain" =>
          \A pattern \in NamedPatterns :
              Contains(retry.lastErr.text, pattern) <=> Occurs(retry.lastErr.text, pattern)
    /\ retry.pc = "done" /\ retry.result.how = "err" /\ retry.result.err.kind = "plain" =>
          \A pattern \in NamedPatterns : ~Occurs(retry.result.err.text, pattern)

(***************************************************************************)
(* The quota of HALF_OPEN.                                                 *)
(***************************************************************************)
\* the callers whose call of fn, let through in the present HALF_OPEN
\* period, has not returned
ProbesInFlight == {c \in Callers : execs[c].pc = "fn" /\ execs[c].period = cbh.period}

\* C39: whenever the breaker is HALF_OPEN and its quota is used up
\* (halfOpenCount >= halfOpenMax), a call let through in this period is
\* still running: the breaker is never left HALF_OPEN with a full quota and
\* nothing in flight, turning every call away.
C39_FullQuotaHasCallInFlight ==
    cb.state = "HALF_OPEN" /\ cb.halfOpenCount >= HalfOpenMax => ProbesInFlight # {}

\* the quota is used up, the other probes of the period have returned
\* without an error and one call is still running
C39_Witness ==
    /\ cb.state = "HALF_OPEN"
    /\ cb.halfOpenCount >= HalfOpenMax
    /\ Cardinality({c \in Callers : execs[c].pc = "fn"}) = 1
    /\ cbh.wins >= HalfOpenMax

(***************************************************************************)
(* From the inbox to the table, with the inbox all but full.               *)
(***************************************************************************)
\* n entries of different tuples that another client sent at the start
Backlog(n) ==
    [i \in 1..n |->
        [agent_id |-> EarlierStream, seq |-> i, level |-> INFO,
         service |-> <<Digits[(i \div 100) + 1], Digits[((i \div 10) % 10) + 1],
                       Digits[(i % 10) + 1]>>,
         message |-> <<"m">>]]

\* the writer has not run yet and the inbox is one entry short of full
InboxInit ==
    /\ ConfigDown
    /\ AgentIdle
    /\ a_build = "part_004"
    /\ LET earlier == Backlog(InboxCap - 1)
       IN  /\ handlers = [h \in Streams |-> HandlerIdle]
           /\ dedupCache = {DedupKey(earlier[i]) : i \in 1..Len(earlier)}
           /\ timers = {[key |-> DedupKey(earlier[i]), at |-> ExpiryAt(0)] :
                           i \in 1..Len(earlier)}
           /\ now = 0
           /\ inbox = earlier
           /\ w_buffer = << >>
           /\ w_ins = InsertIdle
           /\ store = << >>
           /\ metrics = [MetricsZero EXCEPT !.batchesReceived = 1,
                                            !.logsReceived = Len(earlier),
                                            !.bytesReceived = Len(earlier) * MarshalBytes,
                                            !.logsProcessed = Len(earlier)]
           /\ admits = [i \in 1..Len(earlier) |->
                           [stream |-> EarlierStream, entry |-> earlier[i], at |-> 0,
                            admitted |-> TRUE]]
    /\ TickersStarted
    /\ SidesIdle

\* the writer is slow: it takes no more than MaxTaken entries
InboxWriterRecv ==
    /\ metrics.logsProcessed - Len(inbox) < MaxTaken
    /\ WriterRecv

InboxNext ==
    \/ FeedSend
    \/ StreamLogsStep(OtherStream)
    \/ InboxWriterRecv
    \/ WriterTick
    \/ InsertBatchStep

SpecInbox == InboxInit /\ [][InboxNext]_vars

\* the entries submitted and not yet flushed, oldest first
Pending == InInsert \o w_buffer \o inbox

\* C40: no entry is lost or duplicated between the inbox and the table.  A
\* step either leaves the pending entries and the table alone, or a
\* handler, with room in the inbox, adds the entry it is at to the pending
\* ones and counts it, or insertBatch ends the bulk insert of the slice it
\* was called with, the oldest pending entries, which as a whole is added
\* to the table or discarded.  A
\* SUCCESS ack is sent only when the handler is past the last entry of the
\* batch and has enqueued every entry it did not drop as a duplicate.
C40_InboxToStoreExactlyOnce ==
    [][/\ \/ Pending' = Pending /\ store' = store
          \/ \E h \in Streams :
                /\ handlers[h].pc = "submit"
                /\ Len(inbox) < InboxCap
                /\ Pending' = Append(Pending, handlers[h].batch.logs[handlers[h].i])
                /\ handlers'[h].processed = handlers[h].processed + 1
                /\ store' = store
          \/ \E k \in 1..Len(Pending) :
                /\ k = Len(InInsert)
                /\ Pending' = SubSeq(Pending, k + 1, Len(Pending))
                /\ store' \in {store, store \o Rows(SubSeq(Pending, 1, k))}
       /\ \A h \in Streams :
             handlers'[h].pc # "submit" /\ handlers[h].pc = "submit" =>
                 Len(inbox') = Len(inbox) + 1
       /\ \A h \in Streams :
             /\ Len(handlers'[h].acks) > Len(handlers[h].acks)
             /\ handlers'[h].acks[Len(handlers'[h].acks)].status = "SUCCESS"
             => /\ handlers[h].i = Len(handlers[h].batch.logs)
                /\ handlers[h].processed + handlers[h].duplicate = Len(handlers[h].batch.logs)
                /\ handlers'[h].acks[Len(handlers'[h].acks)].processed = handlers[h].processed]_vars

\* the inbox is full again after a handler that was blocked at it with the
\* second entry of its batch has enqueued both and sent its ack, and the
\* writer has flushed a slice into the table
C40_Witness ==
    /\ Len(inbox) = InboxCap
    /\ store # << >>
    /\ \E h \in Streams :
          /\ handlers[h].acks # << >>
          /\ handlers[h].acks[Len(handlers[h].acks)].status = "SUCCESS"
          /\ handlers[h].acks[Len(handlers[h].acks)].processed = 2

====
